---- MODULE Spec2Model ----
(***************************************************************************)
(* The ability-resolution and world-simulation engine of EcoHistoryForge   *)
(* (server/gameEngine.ts, server/routes.ts) as a state machine.            *)
(*                                                                         *)
(* Every `await` on the storage is a suspension point.  A handler is cut   *)
(* into one action per storage call: the action performs the storage       *)
(* operation and the synchronous code that follows it up to the next       *)
(* storage call.  Handlers of different requests and the timers interleave *)
(* between these actions.                                                  *)
(***************************************************************************)
EXTENDS Integers, Sequences, FiniteSets, TLC

VARIABLES
    players,          \* players table: id -> row
    monsters,         \* monsters table: id -> row (soft delete: isAlive)
    lootItems,        \* loot_items table (the catalog): set of rows
    worldLoot,        \* world_loot table: set of rows
    lootSeq,          \* number of world_loot rows created so far (fresh ids)
    playerCooldowns,  \* GameEngine.playerCooldowns: player id -> ability name -> expiry
    now,              \* Date.now(), in ms
    req,              \* the useAbility calls: slot -> frame (each slot serves one call)
    rebirth,          \* the rebirth endpoint's calls: slot -> frame
    regen,            \* the regenerator timer's in-flight tick
    regenTicks,       \* number of regenerator ticks so far
    ticks,            \* number of clock advances so far
    conns,            \* wss.clients: connection -> readyState and ws.playerId
    outbox,           \* connection -> the messages the server sent to it, in order
    chatMessages,     \* chat_messages table: the rows, in order of insertion
    received,         \* number of inbound WebSocket messages so far
    lastMessage,      \* the inbound message taken last: connection, type, data
    inventory,        \* player_inventory table: set of rows
    invSeq,           \* number of player_inventory rows created so far (fresh ids)
    collect,          \* the loot-collection endpoint's calls: slot -> frame
    itemUse,          \* the item-use endpoint's calls: slot -> frame
    spawn,            \* the spawner timer's in-flight tick
    spawnLate,        \* a spawner tick that started while the one in spawn is in flight
    spawnTicks,       \* number of spawner ticks so far
    monsterSeq,       \* number of monsters rows created so far (fresh ids)
    sweeps,           \* number of loot-janitor ticks so far
    faults,           \* timer -> the numbers of its ticks that a storage error ended
    lootQuery,        \* the rows the last getWorldLootInZone returned
    replay            \* the first of two runs of one call from one state, for comparison

vars == <<players, monsters, lootItems, worldLoot, lootSeq, playerCooldowns, now,
          req, rebirth, regen, regenTicks, ticks, conns, outbox, chatMessages, received,
          lastMessage, inventory, invSeq, collect, itemUse, spawn, spawnLate, spawnTicks,
          monsterSeq, sweeps, faults, lootQuery, replay>>

\* the state of the inventory, of the loot endpoints and of the other timers
extra == <<inventory, invSeq, collect, itemUse, spawn, spawnLate, spawnTicks, monsterSeq,
           sweeps, faults, lootQuery, replay>>

----------------------------------------------------------------------------
(* Bounds of the model *)

MaxRegenTicks == 1
MaxTicks == 1
MaxMessages == 3
MaxSpawnTicks == 1
MaxSweeps == 1
MaxFaults == 1
TickMs == 2000

----------------------------------------------------------------------------
(* Ability names are strings; they are modelled as sequences of characters *)
(* so that toLowerCase() and replace(" ", "_") are computed, not assumed.  *)

stone_bullet == <<"s", "t", "o", "n", "e", "_", "b", "u", "l", "l", "e", "t">>
wind_manipulation == <<"w", "i", "n", "d", "_", "m", "a", "n", "i", "p", "u", "l", "a", "t", "i", "o", "n">>
ground_dig_up == <<"g", "r", "o", "u", "n", "d", "_", "d", "i", "g", "_", "u", "p">>
aura_release == <<"a", "u", "r", "a", "_", "r", "e", "l", "e", "a", "s", "e">>
StoneBulletDisplay == <<"S", "t", "o", "n", "e", " ", "B", "u", "l", "l", "e", "t">>
GroundDigUpDisplay == <<"G", "r", "o", "u", "n", "d", " ", "D", "i", "g", "-", "U", "p">>
fireball == <<"f", "i", "r", "e", "b", "a", "l", "l">>

UpperCase == <<"A", "B", "C", "D", "E", "F", "G", "H", "I", "J", "K", "L", "M",
               "N", "O", "P", "Q", "R", "S", "T", "U", "V", "W", "X", "Y", "Z">>
LowerCase == <<"a", "b", "c", "d", "e", "f", "g", "h", "i", "j", "k", "l", "m",
               "n", "o", "p", "q", "r", "s", "t", "u", "v", "w", "x", "y", "z">>

\* String.prototype.toLowerCase
toLowerCase(s) ==
    [i \in 1..Len(s) |->
        IF \E k \in 1..Len(UpperCase) : UpperCase[k] = s[i]
        THEN LowerCase[CHOOSE k \in 1..Len(UpperCase) : UpperCase[k] = s[i]]
        ELSE s[i]]

\* String.prototype.replace with a string pattern: only the first occurrence
replaceFirst(s, from, to) ==
    IF \E i \in 1..Len(s) : s[i] = from
    THEN LET first == CHOOSE i \in 1..Len(s) :
                          s[i] = from /\ \A j \in 1..(i - 1) : s[j] # from
         IN  [i \in 1..Len(s) |-> IF i = first THEN to ELSE s[i]]
    ELSE s

\* the key used for this.abilities.get(...)
AbilityKey(abilityName) == replaceFirst(toLowerCase(abilityName), " ", "_")

\* GameEngine.initializeAbilities: the catalog
abilities ==
    [k \in {stone_bullet, wind_manipulation, ground_dig_up, aura_release} |->
        CASE k = stone_bullet ->
               [name |-> "Stone Bullet", auraCost |-> 50, damage |-> 150,
                range |-> 30, cooldown |-> 2000, requiredLevel |-> 1]
          [] k = wind_manipulation ->
               [name |-> "Wind Manipulation", auraCost |-> 75, damage |-> 200,
                range |-> 15, cooldown |-> 3000, requiredLevel |-> 15]
          [] k = ground_dig_up ->
               [name |-> "Ground Dig-Up", auraCost |-> 100, damage |-> 300,
                range |-> 10, cooldown |-> 5000, requiredLevel |-> 60]
          [] k = aura_release ->
               [name |-> "Aura Release", auraCost |-> 200, damage |-> 500,
                range |-> 25, cooldown |-> 10000, requiredLevel |-> 85]]

\* this.abilities.get(key) !== undefined
HasAbility(abilityName) == AbilityKey(abilityName) \in DOMAIN abilities

\* this.abilities.get(key)
GetAbility(abilityName) == abilities[AbilityKey(abilityName)]

----------------------------------------------------------------------------
(* Identifiers and the values requests are drawn from *)

PlayerIds == {"p1", "p2"}
Ghost == "ghost"                 \* a player id with no row
MonsterIds == {"m1", "m2", "m3", "m4"}
NoTarget == ""                   \* targetId absent (falsy)
Reqs == {"r1", "r2"}
CombatZone == "selha_latna"

AbilityNameArgs ==
    {stone_bullet, StoneBulletDisplay, ground_dig_up, GroundDigUpDisplay, aura_release,
     fireball}

\* the useAbility calls the model issues: <<playerId, abilityName, targetId>>
AbilityCalls ==
    {<<Ghost, fireball, NoTarget>>,
     <<"p1", fireball, "m1">>,
     <<"p1", aura_release, "m1">>,
     <<"p1", stone_bullet, NoTarget>>,
     <<"p1", stone_bullet, "m1">>,
     <<"p1", stone_bullet, "m2">>,
     <<"p1", stone_bullet, "m3">>,
     <<"p1", stone_bullet, "m4">>,
     <<"p1", stone_bullet, "m0">>,
     <<"p1", StoneBulletDisplay, NoTarget>>,
     <<"p1", ground_dig_up, "m1">>,
     <<"p1", GroundDigUpDisplay, NoTarget>>,
     <<"p2", stone_bullet, NoTarget>>,
     <<"p2", ground_dig_up, NoTarget>>}

\* the calls issued while another call may be in flight (slot r2)
ConcurrentCalls ==
    {<<"p1", stone_bullet, NoTarget>>,
     <<"p1", stone_bullet, "m1">>,
     <<"p2", stone_bullet, NoTarget>>,
     <<"p1", ground_dig_up, NoTarget>>}

CallsOf(r) == IF r = "r1" THEN AbilityCalls ELSE ConcurrentCalls

\* the players the rebirth endpoint is called for
RebirthCalls == {"p1"}

\* the rebirth requests: slot b1, and slot b2 for a request arriving meanwhile
RebirthReqs == {"b1", "b2"}

\* the WebSocket connections, in the order they are accepted
Conns == <<"c1", "c2", "c3">>
ConnIds == {Conns[i] : i \in 1..Len(Conns)}
\* the connections whose client goes away
Closing == {"c3"}
Http == "http"                   \* a call that came by the HTTP endpoint
Unset == ""                      \* ws.playerId undefined (falsy)

\* the calls of POST /api/loot/collect and of POST /api/inventory/use
CollectReqs == {"k1", "k2"}
ItemReqs == {"u1", "u2"}

\* the three setInterval callbacks of GameEngine.start
Timers == {"spawner", "regenerator", "janitor"}

Null == [id |-> "undefined"]

IdleCollect == [pc |-> "idle", playerId |-> "", lootId |-> "", loot |-> Null,
                existing |-> Null, status |-> 0]
IdleItem == [pc |-> "idle", playerId |-> "", itemId |-> "", quantity |-> 0,
             item |-> Null, existing |-> Null, player |-> Null, status |-> 0]
IdleSpawn == [pc |-> "idle", online |-> {}, level |-> 0]
NoReplay == [phase |-> "none", pre |-> <<>>, post |-> <<>>]     \* undefined, for row-valued locals

NoMessage == [kind |-> "", n |-> 0, name |-> ""]
NoResult == [success |-> FALSE, hasDamage |-> FALSE, damage |-> 0,
             abilityUsed |-> <<>>, playerId |-> "", targetId |-> "",
             message |-> NoMessage, auraCost |-> 0]

IdleFrame == [pc |-> "idle", playerId |-> "", abilityName |-> <<>>, targetId |-> "",
              player |-> Null, monster |-> Null, totalDamage |-> 0, newHealth |-> 0,
              result |-> NoResult, armedAt |-> 0,
              issuedAt |-> 0, issuedAfter |-> {}, via |-> Http]

----------------------------------------------------------------------------
(* Storage (DatabaseStorage) *)

Max(a, b) == IF a >= b THEN a ELSE b
Min(a, b) == IF a <= b THEN a ELSE b

\* .set(updates): the fields named by updates are overwritten
Merge(row, updates) ==
    [f \in DOMAIN row |-> IF f \in DOMAIN updates THEN updates[f] ELSE row[f]]

getPlayer(ps, id) == IF id \in DOMAIN ps THEN ps[id] ELSE Null

updatePlayer(ps, id, updates) ==
    IF id \in DOMAIN ps THEN [ps EXCEPT ![id] = Merge(@, updates)] ELSE ps

getOnlinePlayers(ps) == {ps[id] : id \in {i \in DOMAIN ps : ps[i].isOnline}}

getMonstersInZone(ms, zone) ==
    {ms[id] : id \in {i \in DOMAIN ms : ms[i].zone = zone /\ ms[i].isAlive}}

updateMonster(ms, id, updates) ==
    IF id \in DOMAIN ms THEN [ms EXCEPT ![id] = Merge(@, updates)] ELSE ms

deleteMonster(ms, id) ==
    IF id \in DOMAIN ms THEN [ms EXCEPT ![id].isAlive = FALSE] ELSE ms

\* update ... where id = ...: no row matches an id that is not stored
setPlayerOnlineStatus(ps, id, isOnline) ==
    IF id \in DOMAIN ps THEN [ps EXCEPT ![id].isOnline = isOnline] ELSE ps

\* a faulty variant: the height is not persisted
updatePlayerPositionFlat(ps, id, move) ==
    IF id \in DOMAIN ps
    THEN [ps EXCEPT ![id] = Merge(@, [positionX |-> move.x, positionZ |-> move.z,
                                      rotationY |-> move.rotation])]
    ELSE ps

\* rotationY is set only when a rotation is given
updatePlayerPosition(ps, id, move) ==
    IF id \in DOMAIN ps
    THEN [ps EXCEPT ![id] = Merge(@, IF move.hasRotation
                                     THEN [positionX |-> move.x, positionY |-> move.y,
                                           positionZ |-> move.z, rotationY |-> move.rotation]
                                     ELSE [positionX |-> move.x, positionY |-> move.y,
                                           positionZ |-> move.z])]
    ELSE ps

\* a faulty variant: the table accepts a row without player
CanCreateChatMessageAny(ps, playerId) ==
    TRUE

\* chat_messages.player_id is NOT NULL and references players.id: the insert
\* succeeds exactly for the id of a stored player
CanCreateChatMessage(ps, playerId) ==
    playerId \in DOMAIN ps

createChatMessage(rows, playerId, message, channel) ==
    Append(rows, [id |-> Len(rows) + 1, playerId |-> playerId, message |-> message,
                  channel |-> channel])

----------------------------------------------------------------------------
(* Cooldown tracker; an absent entry is 0 (falsy, like undefined) *)

\* this.playerCooldowns.get(playerId)?.get(abilityName): 0 when the player has
\* no map or the map no entry
cooldownEndOf(cds, playerId, abilityName) ==
    IF playerId \in DOMAIN cds
    THEN IF abilityName \in DOMAIN cds[playerId] THEN cds[playerId][abilityName] ELSE 0
    ELSE 0

\* a faulty variant: the cooldown still holds at the instant it expires
isOnCooldownInclusive(cds, playerId, abilityName, t) ==
    LET cooldownEnd == cooldownEndOf(cds, playerId, abilityName)
    IN  IF cooldownEnd # 0 THEN t <= cooldownEnd ELSE FALSE

isOnCooldown(cds, playerId, abilityName, t) ==
    LET cooldownEnd == cooldownEndOf(cds, playerId, abilityName)
    IN  IF cooldownEnd # 0 THEN t < cooldownEnd ELSE FALSE

\* a faulty variant: the difference is not held at 0
getRemainingCooldownSigned(cds, playerId, abilityName, t) ==
    LET cooldownEnd == cooldownEndOf(cds, playerId, abilityName)
    IN  IF cooldownEnd # 0 THEN cooldownEnd - t ELSE 0

getRemainingCooldown(cds, playerId, abilityName, t) ==
    LET cooldownEnd == cooldownEndOf(cds, playerId, abilityName)
    IN  IF cooldownEnd # 0 THEN Max(0, cooldownEnd - t) ELSE 0

\* a faulty variant: one expiry per ability, shared by all players
setCooldownForAll(cds, playerId, abilityName, duration, t) ==
    [p \in DOMAIN cds |-> [cds[p] EXCEPT ![abilityName] = t + duration]]

setCooldown(cds, playerId, abilityName, duration, t) ==
    [cds EXCEPT ![playerId][abilityName] = t + duration]

----------------------------------------------------------------------------
(* Combat resolver: pure parts *)

\* a faulty variant: a hundredth of the hidden strength instead of a tenth
TotalDamageHundredth(ability, player) ==
    ability.damage + (player.hiddenStrength \div 100)

\* ability.damage + Math.floor(player.hiddenStrength * 0.1); the product in
\* doubles floors to hiddenStrength div 10 for every hiddenStrength below 50000
TotalDamage(ability, player) ==
    ability.damage + (player.hiddenStrength \div 10)

\* a faulty variant: a monster at exactly the range is out of range
isInRangeStrict(player, monster, range) ==
    LET dx == player.positionX - monster.positionX
        dy == player.positionY - monster.positionY
        dz == player.positionZ - monster.positionZ
    IN  dx * dx + dy * dy + dz * dz < range * range

\* Math.sqrt(dx*dx + dy*dy + dz*dz) <= range, on integer coordinates
isInRange(player, monster, range) ==
    LET dx == player.positionX - monster.positionX
        dy == player.positionY - monster.positionY
        dz == player.positionZ - monster.positionZ
    IN  dx * dx + dy * dy + dz * dz <= range * range

findNearbyMonster(ms, player, targetId) ==
    LET found == {m \in getMonstersInZone(ms, CombatZone) :
                     m.id = targetId /\ isInRange(player, m, 50)}
    IN  IF found = {} THEN Null ELSE CHOOSE m \in found : TRUE

\* The pairs <<monster level, rebirth cycle>>, rebirth cycle in 0..8, for which
\* level * 10 * (1 + rebirthCycle * 0.1) evaluated in IEEE doubles falls just
\* below the integer level * (10 + rebirthCycle), e.g. 17 * 10 * 1.4 =
\* 237.99999999999997
FloatShortfall ==
    {<<l, 4>> : l \in {9, 17, 18, 33, 34, 35, 36, 65, 66, 67, 68, 69, 70, 71, 72, 73}}

\* Math.floor(monster.level * 10 * (1 + player.rebirthCycle * 0.1))
ExpGain(monsterLevel, rebirthCycle) ==
    monsterLevel * (10 + rebirthCycle)
        - (IF <<monsterLevel, rebirthCycle>> \in FloatShortfall THEN 1 ELSE 0)

\* a faulty variant: the computed level is not held to 100
AwardUpdatesNoCap(player, exp) ==
    LET newExp == player.experience + exp
        newLevel == (newExp \div 100) + 1
    IN  IF newLevel > player.level
        THEN [experience |-> newExp, level |-> newLevel,
              maxHealth |-> 1000 + newLevel * 50, maxAura |-> 500 + newLevel * 25,
              health |-> 1000 + newLevel * 50, aura |-> 500 + newLevel * 25]
        ELSE [experience |-> newExp]

\* a faulty variant: a level-up raises the maxima but does not heal
AwardUpdatesNoHeal(player, exp) ==
    LET newExp == player.experience + exp
        newLevel == (newExp \div 100) + 1
    IN  IF newLevel > player.level /\ newLevel <= 100
        THEN [experience |-> newExp, level |-> newLevel,
              maxHealth |-> 1000 + newLevel * 50, maxAura |-> 500 + newLevel * 25]
        ELSE [experience |-> newExp]

\* awardExperience: the updates it writes
AwardUpdates(player, exp) ==
    LET newExp == player.experience + exp
        newLevel == (newExp \div 100) + 1
    IN  IF newLevel > player.level /\ newLevel <= 100
        THEN [experience |-> newExp, level |-> newLevel,
              maxHealth |-> 1000 + newLevel * 50, maxAura |-> 500 + newLevel * 25,
              health |-> 1000 + newLevel * 50, aura |-> 500 + newLevel * 25]
        ELSE [experience |-> newExp]

Failure(f, message, auraCost) ==
    [success |-> FALSE, hasDamage |-> FALSE, damage |-> 0,
     abilityUsed |-> f.abilityName, playerId |-> f.playerId, targetId |-> "",
     message |-> message, auraCost |-> auraCost]

Success(f) ==
    LET ability == GetAbility(f.abilityName)
    IN  [success |-> TRUE, hasDamage |-> TRUE, damage |-> f.totalDamage,
         abilityUsed |-> f.abilityName, playerId |-> f.playerId,
         targetId |-> f.targetId,
         message |-> [kind |-> "Used", n |-> f.totalDamage, name |-> ability.name],
         auraCost |-> ability.auraCost]

\* a faulty variant: the aura check runs before the level check
ValidationAuraFirst(f, cds, t) ==
    IF f.player = Null
    THEN Failure(f, [kind |-> "Player not found", n |-> 0, name |-> ""], 0)
    ELSE IF ~HasAbility(f.abilityName)
    THEN Failure(f, [kind |-> "Unknown ability", n |-> 0, name |-> ""], 0)
    ELSE LET ability == GetAbility(f.abilityName)
         IN  IF f.player.aura < ability.auraCost
             THEN Failure(f, [kind |-> "Not enough aura", n |-> 0, name |-> ""],
                          ability.auraCost)
             ELSE IF f.player.level < ability.requiredLevel
             THEN Failure(f, [kind |-> "Requires level", n |-> ability.requiredLevel,
                              name |-> ""], ability.auraCost)
             ELSE IF isOnCooldown(cds, f.playerId, f.abilityName, t)
             THEN Failure(f, [kind |-> "Ability on cooldown",
                              n |-> getRemainingCooldown(cds, f.playerId, f.abilityName, t),
                              name |-> ""], ability.auraCost)
             ELSE NoResult

\* a faulty variant: the cost is compared with the player's maximal aura
ValidationMaxAura(f, cds, t) ==
    IF f.player = Null
    THEN Failure(f, [kind |-> "Player not found", n |-> 0, name |-> ""], 0)
    ELSE IF ~HasAbility(f.abilityName)
    THEN Failure(f, [kind |-> "Unknown ability", n |-> 0, name |-> ""], 0)
    ELSE LET ability == GetAbility(f.abilityName)
         IN  IF f.player.level < ability.requiredLevel
             THEN Failure(f, [kind |-> "Requires level", n |-> ability.requiredLevel,
                              name |-> ""], ability.auraCost)
             ELSE IF f.player.maxAura < ability.auraCost
             THEN Failure(f, [kind |-> "Not enough aura", n |-> 0, name |-> ""],
                          ability.auraCost)
             ELSE IF isOnCooldown(cds, f.playerId, f.abilityName, t)
             THEN Failure(f, [kind |-> "Ability on cooldown",
                              n |-> getRemainingCooldown(cds, f.playerId, f.abilityName, t),
                              name |-> ""], ability.auraCost)
             ELSE NoResult

\* the validation pipeline of useAbility: the failure result, or NoResult when
\* every check passes
Validation(f, cds, t) ==
    IF f.player = Null
    THEN Failure(f, [kind |-> "Player not found", n |-> 0, name |-> ""], 0)
    ELSE IF ~HasAbility(f.abilityName)
    THEN Failure(f, [kind |-> "Unknown ability", n |-> 0, name |-> ""], 0)
    ELSE LET ability == GetAbility(f.abilityName)
         IN  IF f.player.level < ability.requiredLevel
             THEN Failure(f, [kind |-> "Requires level", n |-> ability.requiredLevel,
                              name |-> ""], ability.auraCost)
             ELSE IF f.player.aura < ability.auraCost
             THEN Failure(f, [kind |-> "Not enough aura", n |-> 0, name |-> ""],
                          ability.auraCost)
             ELSE IF isOnCooldown(cds, f.playerId, f.abilityName, t)
             THEN Failure(f, [kind |-> "Ability on cooldown",
                              n |-> getRemainingCooldown(cds, f.playerId, f.abilityName, t),
                              name |-> ""], ability.auraCost)
             ELSE NoResult

----------------------------------------------------------------------------
(* useAbility, one action per storage call *)

world == <<players, monsters, lootItems, worldLoot, lootSeq>>
others == <<rebirth, regen, regenTicks, ticks, conns, chatMessages, received, lastMessage,
            extra>>
session == <<conns, outbox, chatMessages, received, lastMessage>>

\* a faulty variant: a broadcast reaches closed connections too
AllClients ==
    {c \in ConnIds : conns[c].state # "none"}

\* the connections a broadcast reaches: readyState === WebSocket.OPEN
OpenConns ==
    {c \in ConnIds : conns[c].state = "open"}

\* client.send(msg) for every client in targets
Deliver(ob, targets, msg) ==
    [c \in ConnIds |-> IF c \in targets THEN Append(ob[c], msg) ELSE ob[c]]

\* a faulty variant: combat_action goes to every open connection, the sender
\* included, whatever the result
RespondToAll(r, result) ==
    LET via == req[r].via
        action == [type |-> "combat_action", data |-> result]
    IN  IF via = Http
        THEN outbox' = Deliver(outbox, OpenConns, action)
        ELSE outbox' = Deliver(Deliver(outbox, {via} \cap OpenConns,
                                       [type |-> "ability_result", data |-> result]),
                               OpenConns, action)

\* what follows the return of useAbility.  HTTP endpoint (routes.ts 204-211):
\* combat_action to every open connection.  use_ability message (285-300):
\* ability_result to the sender, then combat_action to every other open
\* connection if the use succeeded; when the sender is no longer open its
\* ws.send delivers nothing and, depending on the ws library, either returns or
\* throws, and a throw skips the broadcast
Respond(r, result) ==
    LET via == req[r].via
        action == [type |-> "combat_action", data |-> result]
    IN  IF via = Http
        THEN outbox' = Deliver(outbox, OpenConns, action)
        ELSE IF conns[via].state = "open"
        THEN outbox' = Deliver(Deliver(outbox, {via},
                                       [type |-> "ability_result", data |-> result]),
                               IF result.success THEN OpenConns \ {via} ELSE {}, action)
        ELSE \E throws \in BOOLEAN :
                outbox' = IF throws \/ ~result.success THEN outbox
                          ELSE Deliver(outbox, OpenConns \ {via}, action)

\* the handler is invoked and storage.getPlayer answers
Start(r) ==
    /\ req[r].pc = "idle"
    /\ \E c \in CallsOf(r) :
          req' = [req EXCEPT ![r] =
                     [IdleFrame EXCEPT !.pc = "validate", !.playerId = c[1],
                                       !.abilityName = c[2], !.targetId = c[3],
                                       !.player = getPlayer(players, c[1]),
                                       !.issuedAt = now,
                                       !.issuedAfter = {s \in Reqs : req[s].pc = "done"}]]
    /\ UNCHANGED <<world, playerCooldowns, now, others, outbox>>

\* lines 74-133: the five checks, the damage, the call of updatePlayer
Validate(r) ==
    /\ req[r].pc = "validate"
    /\ LET f == req[r]
           failure == Validation(f, playerCooldowns, now)
       IN  IF failure # NoResult
           THEN /\ req' = [req EXCEPT ![r].pc = "done", ![r].result = failure]
                /\ Respond(r, failure)
           ELSE /\ req' = [req EXCEPT ![r].pc = "updatePlayer",
                          ![r].totalDamage = TotalDamage(GetAbility(f.abilityName), f.player)]
                /\ UNCHANGED outbox
    /\ UNCHANGED <<world, playerCooldowns, now, others>>

\* lines 133-142: the aura is written, the cooldown armed, the target looked for
UpdatePlayerAura(r) ==
    /\ req[r].pc = "updatePlayer"
    /\ LET f == req[r]
           ability == GetAbility(f.abilityName)
       IN  /\ players' = updatePlayer(players, f.playerId,
                                      [aura |-> f.player.aura - ability.auraCost])
           /\ playerCooldowns' = setCooldown(playerCooldowns, f.playerId, f.abilityName,
                                             ability.cooldown, now)
           /\ IF f.targetId # NoTarget
              THEN /\ req' = [req EXCEPT ![r].pc = "findMonster", ![r].armedAt = now]
                   /\ UNCHANGED outbox
              ELSE /\ req' = [req EXCEPT ![r].pc = "done", ![r].armedAt = now,
                                         ![r].result = Success(f)]
                   /\ Respond(r, Success(f))
    /\ UNCHANGED <<monsters, lootItems, worldLoot, lootSeq, now, others>>

\* lines 142-145: getMonstersInZone answers, the new health is computed
FindMonster(r) ==
    /\ req[r].pc = "findMonster"
    /\ LET f == req[r]
           monster == findNearbyMonster(monsters, f.player, f.targetId)
       IN  IF monster # Null
           THEN /\ req' = [req EXCEPT ![r].pc = "updateMonster", ![r].monster = monster,
                             ![r].newHealth = Max(0, monster.health - f.totalDamage)]
                /\ UNCHANGED outbox
           ELSE /\ req' = [req EXCEPT ![r].pc = "done", ![r].result = Success(f)]
                /\ Respond(r, Success(f))
    /\ UNCHANGED <<world, playerCooldowns, now, others>>

\* lines 145-148: the health is written
UpdateMonster(r) ==
    /\ req[r].pc = "updateMonster"
    /\ LET f == req[r]
       IN  /\ monsters' = updateMonster(monsters, f.monster.id, [health |-> f.newHealth])
           /\ IF f.newHealth <= 0
              THEN /\ req' = [req EXCEPT ![r].pc = "deleteMonster"]
                   /\ UNCHANGED outbox
              ELSE /\ req' = [req EXCEPT ![r].pc = "done", ![r].result = Success(f)]
                   /\ Respond(r, Success(f))
    /\ UNCHANGED <<players, lootItems, worldLoot, lootSeq, playerCooldowns, now, others>>

\* lines 148-151: the monster is soft-deleted
DeleteMonster(r) ==
    /\ req[r].pc = "deleteMonster"
    /\ monsters' = deleteMonster(monsters, req[r].monster.id)
    /\ req' = [req EXCEPT ![r].pc = "awardExperience"]
    /\ UNCHANGED <<players, lootItems, worldLoot, lootSeq, playerCooldowns, now, others,
                   outbox>>

\* lines 150-151, 208-224: awardExperience writes its updates
AwardExperience(r) ==
    /\ req[r].pc = "awardExperience"
    /\ LET f == req[r]
           expGain == ExpGain(f.monster.level, f.player.rebirthCycle)
       IN  players' = updatePlayer(players, f.player.id, AwardUpdates(f.player, expGain))
    /\ req' = [req EXCEPT ![r].pc = "dropLoot"]
    /\ UNCHANGED <<monsters, lootItems, worldLoot, lootSeq, playerCooldowns, now, others,
                   outbox>>

\* (Math.random() - 0.5) * 10 lies in [-5, 5): the values drawn for X and for Z
LootOffsetsX == {-5}
LootOffsetsZ == {4}

\* the drops dropLoot may decide on: at most one stack of bones (1-3), then at
\* most one stack of meat (1-2), each with its own offsets
Drops(boneItem, meatItem) ==
    LET stacks(item, maxQuantity) ==
            {<<>>} \cup {<<[itemId |-> item.id, quantity |-> q, offsetX |-> ox, offsetZ |-> oz]>> :
                            <<q, ox, oz>> \in (1..maxQuantity) \X LootOffsetsX \X LootOffsetsZ}
    IN  {b \o m : <<b, m>> \in stacks(boneItem, 3) \X stacks(meatItem, 2)}

\* a faulty variant: the loot is tagged with the monster instead of the killer
WorldLootRowByMonster(drop, i, monster, killerId, seq, t) ==
    [id |-> seq + i, itemId |-> drop.itemId, quantity |-> drop.quantity,
     positionX |-> monster.positionX + drop.offsetX,
     positionY |-> monster.positionY,
     positionZ |-> monster.positionZ + drop.offsetZ,
     zone |-> monster.zone, droppedBy |-> monster.id,
     spawnedAt |-> t, expiresAt |-> t + 300000]

\* createWorldLoot for the i-th drop of a kill
WorldLootRow(drop, i, monster, killerId, seq, t) ==
    [id |-> seq + i, itemId |-> drop.itemId, quantity |-> drop.quantity,
     positionX |-> monster.positionX + drop.offsetX,
     positionY |-> monster.positionY,
     positionZ |-> monster.positionZ + drop.offsetZ,
     zone |-> monster.zone, droppedBy |-> killerId,
     spawnedAt |-> t, expiresAt |-> t + 300000]

\* lines 154, 250-294: dropLoot, then the result is returned
DropLoot(r) ==
    /\ req[r].pc = "dropLoot"
    /\ LET f == req[r]
           bones == {i \in lootItems : i.name = "Monster Bone"}
           meats == {i \in lootItems : i.name = "Monster Meat"}
       IN  IF bones = {} \/ meats = {}
           THEN UNCHANGED <<worldLoot, lootSeq>>
           ELSE \E drops \in Drops(CHOOSE i \in bones : TRUE, CHOOSE i \in meats : TRUE) :
                   /\ worldLoot' = worldLoot \cup
                          {WorldLootRow(drops[i], i, f.monster, f.player.id, lootSeq, now) :
                              i \in 1..Len(drops)}
                   /\ lootSeq' = lootSeq + Len(drops)
    /\ req' = [req EXCEPT ![r].pc = "done", ![r].result = Success(req[r])]
    /\ Respond(r, Success(req[r]))
    /\ UNCHANGED <<players, monsters, lootItems, playerCooldowns, now, others>>

----------------------------------------------------------------------------
(* The rebirth endpoint (routes.ts) and DatabaseStorage.performRebirth *)

IdleRebirth == [pc |-> "idle", playerId |-> "", player |-> Null, row |-> Null, status |-> 0]

\* a faulty variant: the maxima of the old level survive the rebirth
RebirthUpdatesKeepMax(row) ==
    LET statGains == row.level * 10
    IN  [level |-> 1, experience |-> 0, rebirthCycle |-> row.rebirthCycle + 1,
         health |-> 1000, aura |-> 500,
         hiddenStrength |-> row.hiddenStrength + statGains,
         hiddenAgility |-> row.hiddenAgility + statGains,
         hiddenIntelligence |-> row.hiddenIntelligence + statGains,
         hiddenEndurance |-> row.hiddenEndurance + statGains]

\* performRebirth: the fields it sets, from the row it read
RebirthUpdates(row) ==
    LET statGains == row.level * 10
    IN  [level |-> 1, experience |-> 0, rebirthCycle |-> row.rebirthCycle + 1,
         health |-> 1000, maxHealth |-> 1000, aura |-> 500, maxAura |-> 500,
         hiddenStrength |-> row.hiddenStrength + statGains,
         hiddenAgility |-> row.hiddenAgility + statGains,
         hiddenIntelligence |-> row.hiddenIntelligence + statGains,
         hiddenEndurance |-> row.hiddenEndurance + statGains]

\* the request arrives and storage.getPlayer answers
RebirthStart(b) ==
    /\ rebirth[b].pc = "idle"
    /\ \E id \in RebirthCalls :
          rebirth' = [rebirth EXCEPT ![b] =
                         [IdleRebirth EXCEPT !.pc = "check", !.playerId = id,
                                             !.player = getPlayer(players, id)]]
    /\ UNCHANGED <<world, playerCooldowns, now, req, regen, regenTicks, ticks, session, extra>>

\* routes.ts 99-107: 404, 400, or the call of performRebirth
RebirthCheck(b) ==
    /\ rebirth[b].pc = "check"
    /\ rebirth' = IF rebirth[b].player = Null
                  THEN [rebirth EXCEPT ![b].pc = "done", ![b].status = 404]
                  ELSE IF rebirth[b].player.level < 100
                  THEN [rebirth EXCEPT ![b].pc = "done", ![b].status = 400]
                  ELSE [rebirth EXCEPT ![b].pc = "performRead"]
    /\ UNCHANGED <<world, playerCooldowns, now, req, regen, regenTicks, ticks, session, extra>>

\* performRebirth's own getPlayer answers
PerformRebirthRead(b) ==
    /\ rebirth[b].pc = "performRead"
    /\ LET row == getPlayer(players, rebirth[b].player.id)
       IN  rebirth' = IF row = Null
                      THEN [rebirth EXCEPT ![b].pc = "done", ![b].status = 500]
                      ELSE [rebirth EXCEPT ![b].pc = "performWrite", ![b].row = row]
    /\ UNCHANGED <<world, playerCooldowns, now, req, regen, regenTicks, ticks, session, extra>>

\* performRebirth's update is written and the response sent
PerformRebirthWrite(b) ==
    /\ rebirth[b].pc = "performWrite"
    /\ players' = updatePlayer(players, rebirth[b].playerId, RebirthUpdates(rebirth[b].row))
    /\ rebirth' = [rebirth EXCEPT ![b].pc = "done", ![b].status = 200]
    /\ outbox' = Deliver(outbox, OpenConns,
                         [type |-> "player_rebirth",
                          data |-> [playerId |-> rebirth[b].player.id,
                                    newCycle |-> players'[rebirth[b].playerId].rebirthCycle]])
    /\ UNCHANGED <<monsters, lootItems, worldLoot, lootSeq, playerCooldowns, now, req,
                   regen, regenTicks, ticks, conns, chatMessages, received, lastMessage, extra>>

----------------------------------------------------------------------------
(* The regenerator timer (GameEngine.start, every 5 s) *)

\* a faulty variant: the regenerated values are not held to the maxima
RegenUpdatesUncapped(player) ==
    [health |-> player.health + (player.maxHealth \div 100),
     aura |-> player.aura + ((player.maxAura * 2) \div 100)]

\* Math.floor(maxHealth * 0.01) and Math.floor(maxAura * 0.02): in doubles these
\* floor to the integer quotients for every maxHealth = 1000 + 50 * level and
\* maxAura = 500 + 25 * level, level in 0..100
RegenUpdates(player) ==
    [health |-> Min(player.maxHealth, player.health + (player.maxHealth \div 100)),
     aura |-> Min(player.maxAura, player.aura + ((player.maxAura * 2) \div 100))]

\* the timer fires and getOnlinePlayers answers; regen.wrote collects the ids
\* of the players the tick calls updatePlayer for
RegenRead ==
    /\ regen.pc = "idle"
    /\ regenTicks < MaxRegenTicks + Cardinality(faults["regenerator"])
    /\ regenTicks' = regenTicks + 1
    /\ LET online == getOnlinePlayers(players)
       IN  regen' = IF online = {} THEN [pc |-> "idle", todo |-> {}, wrote |-> {}]
                    ELSE [pc |-> "loop", todo |-> online, wrote |-> {}]
    /\ UNCHANGED <<world, playerCooldowns, now, req, rebirth, ticks, session, extra>>

\* one turn of the loop, for the rows in the order the storage returned them
\* (any order); a player whose values do not change is not written
RegenStep ==
    /\ regen.pc = "loop"
    /\ \E player \in regen.todo :
          LET updates == RegenUpdates(player)
              rest == regen.todo \ {player}
              writes == updates.health # player.health \/ updates.aura # player.aura
              wrote == IF writes THEN regen.wrote \cup {player.id} ELSE regen.wrote
          IN  /\ players' = IF writes THEN updatePlayer(players, player.id, updates)
                            ELSE players
              /\ regen' = [pc |-> IF rest = {} THEN "idle" ELSE "loop", todo |-> rest,
                           wrote |-> wrote]
    /\ UNCHANGED <<monsters, lootItems, worldLoot, lootSeq, playerCooldowns, now, req,
                   rebirth, regenTicks, ticks, session, extra>>

----------------------------------------------------------------------------
(* The WebSocket dispatcher (routes.ts 220-323) *)

\* the authenticate messages: the identity at the top level of the message,
\* or inside data as the client's sendMessage(type, data) wraps it
AuthMessages ==
    {[form |-> "top", playerId |-> "p1"],
     [form |-> "top", playerId |-> "p2"],
     [form |-> "data", playerId |-> "p2"]}

\* message.playerId as the server reads it
MessagePlayerId(m) == IF m.form = "top" THEN m.playerId ELSE Unset

\* chat_message data: channel "" stands for a message without channel
ChatInputs == {[message |-> "hi", channel |-> ""]}

\* player_move data, with and without rotation
MoveInputs ==
    {[x |-> 3, y |-> 0, z |-> 4, rotation |-> 90, hasRotation |-> TRUE],
     [x |-> 6, y |-> 0, z |-> 8, rotation |-> 0, hasRotation |-> FALSE]}

\* use_ability data: <<abilityName, targetId>>
WsAbilityCalls ==
    {<<stone_bullet, NoTarget>>, <<fireball, NoTarget>>, <<ground_dig_up, "m1">>}

ErrorReply == [type |-> "error", data |-> [message |-> "Invalid message format"]]

\* a message of the given type and data is taken from an open connection
Receives(c, type, data) ==
    /\ conns[c].state = "open"
    /\ received < MaxMessages
    /\ received' = received + 1
    /\ lastMessage' = [conn |-> c, type |-> type, data |-> data]

\* wss.on('connection'): connections are accepted in the order of Conns
Connect(c) ==
    /\ conns[c].state = "none"
    /\ \E i \in 1..Len(Conns) :
          /\ Conns[i] = c
          /\ \A j \in 1..(i - 1) : conns[Conns[j]].state # "none"
    /\ conns' = [conns EXCEPT ![c] = [state |-> "open", playerId |-> Unset]]
    /\ UNCHANGED <<world, playerCooldowns, now, req, rebirth, regen, regenTicks, ticks,
                   outbox, chatMessages, received, lastMessage, extra>>

\* a faulty variant: the connection goes away and the storage is not told
CloseSilent(c) ==
    /\ c \in Closing
    /\ conns[c].state = "open"
    /\ conns' = [conns EXCEPT ![c].state = "closed"]
    /\ UNCHANGED <<world, playerCooldowns, now, req, rebirth, regen, regenTicks, ticks,
                   outbox, chatMessages, received, lastMessage, extra>>

\* ws.on('close'), lines 313-318
Close(c) ==
    /\ c \in Closing
    /\ conns[c].state = "open"
    /\ conns' = [conns EXCEPT ![c].state = "closed"]
    /\ players' = IF conns[c].playerId # Unset
                  THEN setPlayerOnlineStatus(players, conns[c].playerId, FALSE)
                  ELSE players
    /\ UNCHANGED <<monsters, lootItems, worldLoot, lootSeq, playerCooldowns, now, req,
                   rebirth, regen, regenTicks, ticks, outbox, chatMessages, received,
                   lastMessage, extra>>

\* case 'authenticate', lines 228-231.  For an undefined message.playerId the
\* update either matches no row or the query is refused; a refusal is caught
\* at line 304 and answered with the error reply
Authenticate(c) ==
    /\ \E m \in AuthMessages :
          LET id == MessagePlayerId(m)
          IN  /\ Receives(c, "authenticate", m)
              /\ conns' = [conns EXCEPT ![c].playerId = id]
              /\ players' = setPlayerOnlineStatus(players, id, TRUE)
              /\ IF id = Unset
                 THEN \E throws \in BOOLEAN :
                         outbox' = IF throws THEN Deliver(outbox, {c}, ErrorReply)
                                   ELSE outbox
                 ELSE UNCHANGED outbox
    /\ UNCHANGED <<monsters, lootItems, worldLoot, lootSeq, playerCooldowns, now, req,
                   rebirth, regen, regenTicks, ticks, chatMessages, extra>>

\* case 'chat_message', lines 233-249: no check of the identity; a refused
\* insert is caught at line 304
ChatMessage(c) ==
    /\ \E d \in ChatInputs :
          LET channel == IF d.channel # "" THEN d.channel ELSE "tutorial"
              rows == createChatMessage(chatMessages, conns[c].playerId, d.message, channel)
          IN  /\ Receives(c, "chat_message", d)
              /\ IF CanCreateChatMessage(players, conns[c].playerId)
                 THEN /\ chatMessages' = rows
                      /\ outbox' = Deliver(outbox, OpenConns,
                                           [type |-> "chat_message",
                                            data |-> rows[Len(rows)]])
                 ELSE /\ UNCHANGED chatMessages
                      /\ outbox' = Deliver(outbox, {c}, ErrorReply)
    /\ UNCHANGED <<world, playerCooldowns, now, req, rebirth, regen, regenTicks, ticks,
                   conns, extra>>

\* case 'player_move', lines 251-274
PlayerMove(c) ==
    /\ \E d \in MoveInputs :
          /\ Receives(c, "player_move", d)
          /\ IF conns[c].playerId # Unset
             THEN /\ players' = updatePlayerPosition(players, conns[c].playerId, d)
                  /\ outbox' = Deliver(outbox, OpenConns \ {c},
                                       [type |-> "player_position",
                                        data |-> [playerId |-> conns[c].playerId,
                                                  move |-> d]])
             ELSE UNCHANGED <<players, outbox>>
    /\ UNCHANGED <<monsters, lootItems, worldLoot, lootSeq, playerCooldowns, now, req,
                   rebirth, regen, regenTicks, ticks, conns, chatMessages, extra>>

\* a faulty variant: the use_ability message hands no target to the engine
StartWsUntargeted(r, c) ==
    /\ req[r].pc = "idle"
    /\ \E call \in WsAbilityCalls :
          /\ Receives(c, "use_ability", [abilityName |-> call[1], targetId |-> call[2]])
          /\ IF conns[c].playerId # Unset
             THEN req' = [req EXCEPT ![r] =
                             [IdleFrame EXCEPT !.pc = "validate", !.via = c,
                                               !.playerId = conns[c].playerId,
                                               !.abilityName = call[1],
                                               !.player = getPlayer(players,
                                                                    conns[c].playerId),
                                               !.issuedAt = now]]
             ELSE UNCHANGED req
    /\ UNCHANGED <<world, playerCooldowns, now, rebirth, regen, regenTicks, ticks, conns,
                   outbox, chatMessages, extra>>

\* case 'use_ability', lines 276-282: useAbility is called for ws.playerId
\* and its getPlayer answers
StartWs(r, c) ==
    /\ req[r].pc = "idle"
    /\ \E call \in WsAbilityCalls :
          /\ Receives(c, "use_ability", [abilityName |-> call[1], targetId |-> call[2]])
          /\ IF conns[c].playerId # Unset
             THEN req' = [req EXCEPT ![r] =
                             [IdleFrame EXCEPT !.pc = "validate", !.via = c,
                                               !.playerId = conns[c].playerId,
                                               !.abilityName = call[1],
                                               !.targetId = call[2],
                                               !.player = getPlayer(players,
                                                                    conns[c].playerId),
                                               !.issuedAt = now,
                                               !.issuedAfter =
                                                   {x \in Reqs : req[x].pc = "done"}]]
             ELSE UNCHANGED req
    /\ UNCHANGED <<world, playerCooldowns, now, rebirth, regen, regenTicks, ticks, conns,
                   outbox, chatMessages, extra>>

\* a faulty variant: the connection is closed after the error reply
MalformedCloses(c) ==
    /\ conns[c].state = "open"
    /\ received < MaxMessages
    /\ received' = received + 1
    /\ lastMessage' = [conn |-> c, type |-> "malformed", data |-> [raw |-> "{"]]
    /\ outbox' = Deliver(outbox, {c}, ErrorReply)
    /\ conns' = [conns EXCEPT ![c].state = "closed"]
    /\ UNCHANGED <<world, playerCooldowns, now, req, rebirth, regen, regenTicks, ticks,
                   chatMessages, extra>>

\* JSON.parse throws (line 225): the catch at 304-309 replies to the sender
Malformed(c) ==
    /\ Receives(c, "malformed", [raw |-> "{"])
    /\ outbox' = Deliver(outbox, {c}, ErrorReply)
    /\ UNCHANGED <<world, playerCooldowns, now, req, rebirth, regen, regenTicks, ticks,
                   conns, chatMessages, extra>>

----------------------------------------------------------------------------
(* The clock *)

Tick ==
    /\ ticks < MaxTicks
    /\ ticks' = ticks + 1
    /\ now' = now + TickMs
    /\ UNCHANGED <<world, playerCooldowns, req, rebirth, regen, regenTicks, session, extra>>

----------------------------------------------------------------------------
(* One call through both entry points (routes.ts 198-217 and 276-302).  The *)
(* call is first served by the HTTP endpoint; the tables and the cooldowns  *)
(* are then put back to what they were and the same call is served as a    *)
(* use_ability message.                                                    *)

\* what gameEngine.useAbility reads and writes
EngineState == <<players, monsters, worldLoot, lootSeq, playerCooldowns>>

\* the connections that take part: one for each player
EntryConns == {"c1", "c2"}

\* the state the two runs start from is noted
Mark ==
    /\ replay.phase = "none"
    /\ \A r \in Reqs : req[r].pc = "idle"
    /\ replay' = [replay EXCEPT !.phase = "marked", !.pre = EngineState]
    /\ UNCHANGED <<world, playerCooldowns, now, req, rebirth, regen, regenTicks, ticks,
                   session, inventory, invSeq, collect, itemUse, spawn, spawnLate, spawnTicks,
                   monsterSeq, sweeps, faults, lootQuery>>

\* the HTTP endpoint takes a call that a use_ability message can carry too
EntryHttp ==
    /\ replay.phase = "marked"
    /\ Start("r1")
    /\ <<req'["r1"].abilityName, req'["r1"].targetId>> \in WsAbilityCalls

\* the first run is over: its outcome is noted and the noted state restored
Rewind ==
    /\ replay.phase = "marked"
    /\ req["r1"].pc = "done"
    /\ replay' = [replay EXCEPT !.phase = "replayed", !.post = EngineState]
    /\ players' = replay.pre[1]
    /\ monsters' = replay.pre[2]
    /\ worldLoot' = replay.pre[3]
    /\ lootSeq' = replay.pre[4]
    /\ playerCooldowns' = replay.pre[5]
    /\ UNCHANGED <<lootItems, now, req, rebirth, regen, regenTicks, ticks, session,
                   inventory, invSeq, collect, itemUse, spawn, spawnLate, spawnTicks, monsterSeq,
                   sweeps, faults, lootQuery>>

\* the random draws of dropLoot, read off the rows it created
Draws(rows) == {<<w.itemId, w.quantity, w.positionX, w.positionZ>> : w \in rows}

\* Math.random returns to the second run's dropLoot what it returned to the
\* first run's
SameDraws ==
    req["r2"].pc = "dropLoot" => Draws(worldLoot') = Draws(replay.post[3])

\* the same call arrives as a use_ability message of a connection that
\* carries the same player's identity
EntryWs(c) ==
    /\ replay.phase = "replayed"
    /\ conns[c].playerId = req["r1"].playerId
    /\ StartWs("r2", c)
    /\ lastMessage'.data = [abilityName |-> req["r1"].abilityName,
                            targetId |-> req["r1"].targetId]

----------------------------------------------------------------------------
(* The spawner timer (GameEngine.start, every 30 s) and spawnMonster *)

\* the levels Math.floor(Math.random() * 90) + 10 is sampled at (of 10..99)
SpawnLevels == {10, 12, 99}

\* the positions <<x, z>> Math.random() * 200 - 100 is sampled at
SpawnPositions == {<<3, 4>>, <<-100, 60>>}

\* gen_random_uuid() for the rows createMonster inserts, in order
SpawnedIds == <<"s1", "s2", "s3", "s4">>

\* onlinePlayers.reduce((sum, p) => sum + p.rebirthCycle, 0)
RECURSIVE SumRebirthCycles(_)
SumRebirthCycles(rows) ==
    IF rows = {} THEN 0
    ELSE LET p == CHOOSE x \in rows : TRUE
         IN  p.rebirthCycle + SumRebirthCycles(rows \ {p})

\* 1 + (avgRebirthCycle * 0.5), kept as the fraction (2n + sum) / 2n
DifficultyMultiplier(online) ==
    [num |-> 2 * Cardinality(online) + SumRebirthCycles(online),
     den |-> 2 * Cardinality(online)]

\* The triples <<n, sum, level>>, among n online players whose rebirth cycles
\* sum to 0 (n in 1..7), 4 (n = 3) or 6 (n = 4) and level in 10..99, for which
\* level * 100 * (1 + (sum / n) * 0.5) evaluated in IEEE doubles falls just
\* below its integer value, e.g. 1200 * 1.6666666666666665 = 1999.9999999999998
SpawnShortfall ==
    {<<3, 4, l>> : l \in {12, 18, 21, 24, 33, 36, 39, 42, 45, 48, 63, 66, 69, 72,
                          75, 78, 81, 84, 87, 90, 93, 96}}

\* Math.floor(level * 100 * difficultyMultiplier)
ScaledHealth(level, online) ==
    LET m == DifficultyMultiplier(online)
    IN  ((level * 100 * m.num) \div m.den)
            - (IF <<Cardinality(online), SumRebirthCycles(online), level>>
                     \in SpawnShortfall THEN 1 ELSE 0)

\* a faulty variant: the maximum of the new monster is not scaled
SpawnedRowBaseMax(id, level, online, pos) ==
    [id |-> id, level |-> level, health |-> ScaledHealth(level, online),
     maxHealth |-> level * 100,
     positionX |-> pos[1], positionY |-> 0, positionZ |-> pos[2], zone |-> CombatZone,
     difficultyMultiplier |-> DifficultyMultiplier(online), isAlive |-> TRUE]

\* the row spawnMonster hands to createMonster
SpawnedRow(id, level, online, pos) ==
    [id |-> id, level |-> level, health |-> ScaledHealth(level, online),
     maxHealth |-> ScaledHealth(level, online),
     positionX |-> pos[1], positionY |-> 0, positionZ |-> pos[2], zone |-> CombatZone,
     difficultyMultiplier |-> DifficultyMultiplier(online), isAlive |-> TRUE]

\* insert into monsters
createMonster(ms, row) ==
    [id \in DOMAIN ms \cup {row.id} |-> IF id = row.id THEN row ELSE ms[id]]

\* Math.min(20, onlinePlayers.length * 3)
MaxMonsters(online) ==
    Min(20, Cardinality(online) * 3)

\* the timer fires and getOnlinePlayers answers (lines 302-306)
SpawnRead ==
    /\ spawn.pc = "idle"
    /\ spawnTicks < MaxSpawnTicks + Cardinality(faults["spawner"])
    /\ spawnTicks' = spawnTicks + 1
    /\ LET online == getOnlinePlayers(players)
       IN  spawn' = IF online = {} THEN IdleSpawn
                    ELSE [IdleSpawn EXCEPT !.pc = "count", !.online = online]
    /\ UNCHANGED <<spawnLate, world, playerCooldowns, now, req, rebirth, regen, regenTicks, ticks,
                   session, inventory, invSeq, collect, itemUse, monsterSeq, sweeps,
                   faults, lootQuery, replay>>

\* getMonstersInZone answers; under the cap a level is drawn (lines 308-312)
SpawnCount ==
    /\ spawn.pc = "count"
    /\ IF Cardinality(getMonstersInZone(monsters, CombatZone)) < MaxMonsters(spawn.online)
       THEN \E level \in SpawnLevels :
               spawn' = [spawn EXCEPT !.pc = "create", !.level = level]
       ELSE spawn' = IdleSpawn
    /\ UNCHANGED <<spawnLate, world, playerCooldowns, now, req, rebirth, regen, regenTicks, ticks,
                   session, inventory, invSeq, collect, itemUse, spawnTicks, monsterSeq,
                   sweeps, faults, lootQuery, replay>>

\* spawnMonster: createMonster inserts the row (lines 313, 226-248)
SpawnCreate ==
    /\ spawn.pc = "create"
    /\ monsterSeq < Len(SpawnedIds)
    /\ \E pos \in SpawnPositions :
          monsters' = createMonster(monsters,
                                    SpawnedRow(SpawnedIds[monsterSeq + 1], spawn.level,
                                               spawn.online, pos))
    /\ monsterSeq' = monsterSeq + 1
    /\ spawn' = IdleSpawn
    /\ UNCHANGED <<spawnLate, players, lootItems, worldLoot, lootSeq, playerCooldowns, now, req,
                   rebirth, regen, regenTicks, ticks, session, inventory, invSeq,
                   collect, itemUse, spawnTicks, sweeps, faults, lootQuery, replay>>

\* setInterval fires the callback every 30 s whether or not the previous
\* callback has returned: a tick that starts while the previous tick waits on
\* storage runs the same steps (lines 300-319) on a frame of its own
SpawnLate ==
    /\ \/ /\ spawnLate.pc = "idle"
          /\ spawn.pc # "idle"
          /\ spawnTicks < MaxSpawnTicks + 1
          /\ spawnTicks' = spawnTicks + 1
          /\ LET online == getOnlinePlayers(players)
             IN  spawnLate' = IF online = {} THEN IdleSpawn
                              ELSE [IdleSpawn EXCEPT !.pc = "count", !.online = online]
          /\ UNCHANGED <<monsters, monsterSeq>>
       \/ /\ spawnLate.pc = "count"
          /\ IF Cardinality(getMonstersInZone(monsters, CombatZone))
                   < MaxMonsters(spawnLate.online)
             THEN \E level \in SpawnLevels :
                     spawnLate' = [spawnLate EXCEPT !.pc = "create", !.level = level]
             ELSE spawnLate' = IdleSpawn
          /\ UNCHANGED <<monsters, monsterSeq, spawnTicks>>
       \/ /\ spawnLate.pc = "create"
          /\ monsterSeq < Len(SpawnedIds)
          /\ \E pos \in SpawnPositions :
                monsters' = createMonster(monsters,
                                          SpawnedRow(SpawnedIds[monsterSeq + 1],
                                                     spawnLate.level, spawnLate.online, pos))
          /\ monsterSeq' = monsterSeq + 1
          /\ spawnLate' = IdleSpawn
          /\ UNCHANGED spawnTicks
    /\ UNCHANGED <<players, lootItems, worldLoot, lootSeq, playerCooldowns, now, req,
                   rebirth, regen, regenTicks, ticks, session, inventory, invSeq,
                   collect, itemUse, spawn, sweeps, faults, lootQuery, replay>>

Spawner ==
    \/ SpawnRead
    \/ SpawnCount
    \/ SpawnCreate

----------------------------------------------------------------------------
(* World loot and the inventory (DatabaseStorage, routes.ts 155-195) *)

\* <<playerId, lootId>> of the calls of POST /api/loot/collect; loot 999 does
\* not exist
CollectCalls ==
    {<<"p1", 101>>, <<"p1", 102>>, <<"p1", 103>>, <<"p1", 104>>, <<"p1", 106>>,
     <<"p1", 999>>, <<"p2", 103>>, <<Ghost, 104>>}

\* the calls issued while another call may be in flight (slot k2)
ConcurrentCollects == {<<"p1", 103>>, <<"p1", 104>>, <<"p1", 101>>, <<"p2", 103>>}

CollectCallsOf(k) == IF k = "k1" THEN CollectCalls ELSE ConcurrentCollects

\* <<playerId, itemId, quantity>> of the calls of POST /api/inventory/use; the
\* quantity is whatever the request body holds
ItemCalls ==
    {<<"p1", "meat", 1>>, <<"p1", "meat", 2>>, <<"p1", "meat", 3>>, <<"p1", "meat", 0>>,
     <<"p1", "meat", -1>>,
     <<"p1", "bone", 1>>, <<"p1", "gem", 1>>, <<"p2", "meat", 1>>}

\* the calls issued while another call may be in flight (slot u2)
ConcurrentItemCalls == {<<"p1", "meat", 1>>, <<"p1", "meat", 2>>}

ItemCallsOf(u) == IF u = "u1" THEN ItemCalls ELSE ConcurrentItemCalls

\* a faulty variant: the expiry is not looked at
findLootAnyAge(wl, lootId, t) ==
    {w \in wl : w.id = lootId}

\* select ... from world_loot where id = lootId and expires_at > now()
findUnexpiredLoot(wl, lootId, t) ==
    {w \in wl : w.id = lootId /\ w.expiresAt > t}

\* getWorldLootInZone: the inner join keeps the rows whose item is in the catalog
getWorldLootInZone(wl, items, zone, t) ==
    {w \in wl : /\ w.zone = zone
                /\ w.expiresAt > t
                /\ \E i \in items : i.id = w.itemId}

\* a faulty variant: the sweep also takes the loot that expires within the
\* next tick of the clock
cleanupExpiredLootEarly(wl, t) ==
    {w \in wl : ~(w.expiresAt <= t + TickMs)}

\* cleanupExpiredLoot: delete from world_loot where expires_at <= now()
cleanupExpiredLoot(wl, t) ==
    {w \in wl : ~(w.expiresAt <= t)}

\* select ... from player_inventory where player_id = ... and item_id = ...
inventoryRows(inv, playerId, itemId) ==
    {x \in inv : x.playerId = playerId /\ x.itemId = itemId}

\* update player_inventory set quantity = ... where id = ...
setQuantity(inv, id, quantity) ==
    {IF x.id = id THEN [x EXCEPT !.quantity = quantity] ELSE x : x \in inv}

getLootItem(items, id) ==
    IF \E i \in items : i.id = id THEN CHOOSE i \in items : i.id = id ELSE Null

\* the request arrives; collectWorldLoot selects the loot (lines 785-806)
CollectStart(k) ==
    /\ collect[k].pc = "idle"
    /\ \E c \in CollectCallsOf(k) :
          LET found == findUnexpiredLoot(worldLoot, c[2], now)
              call == [IdleCollect EXCEPT !.playerId = c[1], !.lootId = c[2]]
          IN  collect' = [collect EXCEPT ![k] =
                             IF found = {}
                             THEN [call EXCEPT !.pc = "done", !.status = 400]
                             ELSE [call EXCEPT !.pc = "addRead",
                                               !.loot = CHOOSE w \in found : TRUE]]
    /\ UNCHANGED <<world, playerCooldowns, now, req, rebirth, regen, regenTicks, ticks,
                   session, inventory, invSeq, itemUse, spawn, spawnLate, spawnTicks, monsterSeq,
                   sweeps, faults, lootQuery, replay>>

\* addToInventory selects the stack (lines 664-670): the first of the rows of
\* the pair, in whatever order the storage returns them
CollectAddRead(k) ==
    /\ collect[k].pc = "addRead"
    /\ LET f == collect[k]
           rows == inventoryRows(inventory, f.playerId, f.loot.itemId)
       IN  IF rows = {}
           THEN collect' = [collect EXCEPT ![k].pc = "addWrite", ![k].existing = Null]
           ELSE \E e \in rows :
                   collect' = [collect EXCEPT ![k].pc = "addWrite", ![k].existing = e]
    /\ UNCHANGED <<world, playerCooldowns, now, req, rebirth, regen, regenTicks, ticks,
                   session, inventory, invSeq, itemUse, spawn, spawnLate, spawnTicks, monsterSeq,
                   sweeps, faults, lootQuery, replay>>

\* addToInventory updates the stack or inserts a row (lines 672-687); the
\* insert is refused for a player id that is not in players (schema.ts 89), the
\* refusal reaches the catch of the route (routes.ts 192-194)
CollectAddWrite(k) ==
    /\ collect[k].pc = "addWrite"
    /\ LET f == collect[k]
       IN  IF f.existing # Null
           THEN /\ inventory' = setQuantity(inventory, f.existing.id,
                                            f.existing.quantity + f.loot.quantity)
                /\ collect' = [collect EXCEPT ![k].pc = "delete"]
                /\ UNCHANGED invSeq
           ELSE IF f.playerId \in DOMAIN players
           THEN /\ inventory' = inventory \cup
                                   {[id |-> invSeq + 1, playerId |-> f.playerId,
                                     itemId |-> f.loot.itemId,
                                     quantity |-> f.loot.quantity]}
                /\ invSeq' = invSeq + 1
                /\ collect' = [collect EXCEPT ![k].pc = "delete"]
           ELSE /\ collect' = [collect EXCEPT ![k].pc = "done", ![k].status = 400]
                /\ UNCHANGED <<inventory, invSeq>>
    /\ UNCHANGED <<world, playerCooldowns, now, req, rebirth, regen, regenTicks, ticks,
                   session, itemUse, spawn, spawnLate, spawnTicks, monsterSeq, sweeps, faults,
                   lootQuery, replay>>

\* the loot is deleted and the route answers (lines 812-814, routes.ts 187-188)
CollectDelete(k) ==
    /\ collect[k].pc = "delete"
    /\ worldLoot' = {w \in worldLoot : w.id # collect[k].lootId}
    /\ collect' = [collect EXCEPT ![k].pc = "done", ![k].status = 200]
    /\ UNCHANGED <<players, monsters, lootItems, lootSeq, playerCooldowns, now, req,
                   rebirth, regen, regenTicks, ticks, session, inventory, invSeq,
                   itemUse, spawn, spawnLate, spawnTicks, monsterSeq, sweeps, faults, lootQuery,
                   replay>>

Collect(k) ==
    \/ CollectStart(k)
    \/ CollectAddRead(k)
    \/ CollectAddWrite(k)
    \/ CollectDelete(k)

\* the request arrives; useItem gets the item (lines 720-723)
ItemStart(u) ==
    /\ itemUse[u].pc = "idle"
    /\ \E c \in ItemCallsOf(u) :
          LET found == getLootItem(lootItems, c[2])
              call == [IdleItem EXCEPT !.playerId = c[1], !.itemId = c[2],
                                       !.quantity = c[3]]
          IN  itemUse' = [itemUse EXCEPT ![u] =
                             IF found = Null \/ found.type # "consumable"
                             THEN [call EXCEPT !.pc = "done", !.status = 400]
                             ELSE [call EXCEPT !.pc = "removeRead", !.item = found]]
    /\ UNCHANGED <<world, playerCooldowns, now, req, rebirth, regen, regenTicks, ticks,
                   session, inventory, invSeq, collect, spawn, spawnLate, spawnTicks, monsterSeq,
                   sweeps, faults, lootQuery, replay>>

\* removeFromInventory selects the stack and refuses a missing or too small
\* one (lines 691-701)
ItemRemoveRead(u) ==
    /\ itemUse[u].pc = "removeRead"
    /\ LET f == itemUse[u]
           rows == inventoryRows(inventory, f.playerId, f.itemId)
       IN  IF rows = {}
           THEN itemUse' = [itemUse EXCEPT ![u].pc = "done", ![u].status = 400]
           ELSE \E e \in rows :
                   itemUse' = [itemUse EXCEPT ![u] =
                                  IF e.quantity < f.quantity
                                  THEN [f EXCEPT !.pc = "done", !.status = 400]
                                  ELSE [f EXCEPT !.pc = "removeWrite", !.existing = e]]
    /\ UNCHANGED <<world, playerCooldowns, now, req, rebirth, regen, regenTicks, ticks,
                   session, inventory, invSeq, collect, spawn, spawnLate, spawnTicks, monsterSeq,
                   sweeps, faults, lootQuery, replay>>

\* a faulty variant: a stack that is used up stays, with quantity 0
removeWriteKeepsRow(inv, existing, quantity) ==
    setQuantity(inv, existing.id, existing.quantity - quantity)

\* removeFromInventory deletes the stack or reduces it (lines 703-714)
removeWrite(inv, existing, quantity) ==
    IF existing.quantity = quantity
    THEN {x \in inv : x.id # existing.id}
    ELSE setQuantity(inv, existing.id, existing.quantity - quantity)

\* the stack is written; useItem goes on to read the player (lines 703-716)
ItemRemoveWrite(u) ==
    /\ itemUse[u].pc = "removeWrite"
    /\ inventory' = removeWrite(inventory, itemUse[u].existing, itemUse[u].quantity)
    /\ itemUse' = [itemUse EXCEPT ![u].pc = "getPlayer"]
    /\ UNCHANGED <<world, playerCooldowns, now, req, rebirth, regen, regenTicks, ticks,
                   session, invSeq, collect, spawn, spawnLate, spawnTicks, monsterSeq, sweeps,
                   faults, lootQuery, replay>>

\* getPlayer answers; the effects are worked out (lines 731-747)
ItemGetPlayer(u) ==
    /\ itemUse[u].pc = "getPlayer"
    /\ LET f == itemUse[u]
           player == getPlayer(players, f.playerId)
       IN  itemUse' = [itemUse EXCEPT ![u] =
                          IF player = Null
                          THEN [f EXCEPT !.pc = "done", !.status = 400]
                          ELSE IF f.item.effects.health = 0 /\ f.item.effects.aura = 0
                          THEN [f EXCEPT !.pc = "done", !.status = 200]
                          ELSE [f EXCEPT !.pc = "updatePlayer", !.player = player]]
    /\ UNCHANGED <<world, playerCooldowns, now, req, rebirth, regen, regenTicks, ticks,
                   session, inventory, invSeq, collect, spawn, spawnLate, spawnTicks, monsterSeq,
                   sweeps, faults, lootQuery, replay>>

\* updates.health and updates.aura, each present when the item has the effect
ItemUpdates(f) ==
    LET health == Min(f.player.maxHealth,
                      f.player.health + f.item.effects.health * f.quantity)
        aura == Min(f.player.maxAura, f.player.aura + f.item.effects.aura * f.quantity)
    IN  IF f.item.effects.health # 0 /\ f.item.effects.aura # 0
        THEN [health |-> health, aura |-> aura]
        ELSE IF f.item.effects.health # 0 THEN [health |-> health]
        ELSE [aura |-> aura]

\* updatePlayer stores the effects and the route answers (lines 745-749)
ItemUpdatePlayer(u) ==
    /\ itemUse[u].pc = "updatePlayer"
    /\ players' = updatePlayer(players, itemUse[u].playerId, ItemUpdates(itemUse[u]))
    /\ itemUse' = [itemUse EXCEPT ![u].pc = "done", ![u].status = 200]
    /\ UNCHANGED <<monsters, lootItems, worldLoot, lootSeq, playerCooldowns, now, req,
                   rebirth, regen, regenTicks, ticks, session, inventory, invSeq,
                   collect, spawn, spawnLate, spawnTicks, monsterSeq, sweeps, faults, lootQuery,
                   replay>>

UseItem(u) ==
    \/ ItemStart(u)
    \/ ItemRemoveRead(u)
    \/ ItemRemoveWrite(u)
    \/ ItemGetPlayer(u)
    \/ ItemUpdatePlayer(u)

\* GET /api/loot/:zone (routes.ts 174-181)
LootQuery ==
    /\ lootQuery' = getWorldLootInZone(worldLoot, lootItems, CombatZone, now)
    /\ lootQuery' # lootQuery
    /\ UNCHANGED <<world, playerCooldowns, now, req, rebirth, regen, regenTicks, ticks,
                   session, inventory, invSeq, collect, itemUse, spawn, spawnLate, spawnTicks,
                   monsterSeq, sweeps, faults, replay>>

\* the loot janitor (GameEngine.start, every 60 s): one storage call
Janitor ==
    /\ sweeps < MaxSweeps + Cardinality(faults["janitor"])
    /\ sweeps' = sweeps + 1
    /\ worldLoot' = cleanupExpiredLoot(worldLoot, now)
    /\ UNCHANGED <<players, monsters, lootItems, lootSeq, playerCooldowns, now, req,
                   rebirth, regen, regenTicks, ticks, session, inventory, invSeq,
                   collect, itemUse, spawn, spawnLate, spawnTicks, monsterSeq, faults, lootQuery,
                   replay>>

----------------------------------------------------------------------------
(* Storage errors in the periodic processes (GameEngine.start).  Each     *)
(* callback wraps its storage calls in try/catch: a rejected call ends the *)
(* tick, the error is logged, and setInterval fires the callback again.   *)
(* A tick that failed is followed by another: the bounds on the ticks     *)
(* count the ticks that were not ended by an error.                       *)

\* the ticks that a storage error has ended so far
FaultCount ==
    Cardinality(faults["spawner"]) + Cardinality(faults["regenerator"])
        + Cardinality(faults["janitor"])

\* the spawner: getOnlinePlayers, getMonstersInZone or createMonster rejects
\* (lines 301-318)
SpawnFault ==
    /\ FaultCount < MaxFaults
    /\ \/ /\ spawn.pc = "idle"
          /\ spawnTicks < MaxSpawnTicks + Cardinality(faults["spawner"])
          /\ spawnTicks' = spawnTicks + 1
       \/ /\ spawn.pc \in {"count", "create"}
          /\ spawnTicks' = spawnTicks
    /\ faults' = [faults EXCEPT !["spawner"] = @ \cup {spawnTicks'}]
    /\ spawn' = IdleSpawn
    /\ UNCHANGED <<spawnLate, world, playerCooldowns, now, req, rebirth, regen, regenTicks, ticks,
                   session, inventory, invSeq, collect, itemUse, monsterSeq, sweeps,
                   lootQuery, replay>>

\* a faulty variant: the error ends the regenerator for good
RegenFaultStops ==
    /\ FaultCount < MaxFaults
    /\ \/ /\ regen.pc = "idle"
          /\ regenTicks < MaxRegenTicks + Cardinality(faults["regenerator"])
          /\ regenTicks' = regenTicks + 1
       \/ /\ regen.pc = "loop"
          /\ regenTicks' = regenTicks
    /\ faults' = [faults EXCEPT !["regenerator"] = @ \cup {regenTicks'}]
    /\ regen' = [regen EXCEPT !.pc = "stopped", !.todo = {}]
    /\ UNCHANGED <<world, playerCooldowns, now, req, rebirth, ticks, session, inventory,
                   invSeq, collect, itemUse, spawn, spawnLate, spawnTicks, monsterSeq, sweeps,
                   lootQuery, replay>>

\* the regenerator: getOnlinePlayers rejects, or an updatePlayer of the loop
\* does and the players not yet visited are left out (lines 323-338)
RegenFault ==
    /\ FaultCount < MaxFaults
    /\ \/ /\ regen.pc = "idle"
          /\ regenTicks < MaxRegenTicks + Cardinality(faults["regenerator"])
          /\ regenTicks' = regenTicks + 1
       \/ /\ regen.pc = "loop"
          /\ regenTicks' = regenTicks
    /\ faults' = [faults EXCEPT !["regenerator"] = @ \cup {regenTicks'}]
    /\ regen' = [regen EXCEPT !.pc = "idle", !.todo = {}]
    /\ UNCHANGED <<world, playerCooldowns, now, req, rebirth, ticks, session, inventory,
                   invSeq, collect, itemUse, spawn, spawnLate, spawnTicks, monsterSeq, sweeps,
                   lootQuery, replay>>

\* the janitor: cleanupExpiredLoot rejects (lines 342-347)
JanitorFault ==
    /\ FaultCount < MaxFaults
    /\ sweeps < MaxSweeps + Cardinality(faults["janitor"])
    /\ sweeps' = sweeps + 1
    /\ faults' = [faults EXCEPT !["janitor"] = @ \cup {sweeps'}]
    /\ UNCHANGED <<world, playerCooldowns, now, req, rebirth, regen, regenTicks, ticks,
                   session, inventory, invSeq, collect, itemUse, spawn, spawnLate, spawnTicks,
                   monsterSeq, lootQuery, replay>>

----------------------------------------------------------------------------
(* Storage errors in useAbility.  The engine catches nothing: a rejected   *)
(* storage call ends the handler where it stands, what was written stays   *)
(* written, and the HTTP route answers 400 with the error's message        *)
(* (routes.ts 214-216) without any broadcast.                              *)

\* the answer of the route to a call whose storage call was rejected
StorageError(f) ==
    [NoResult EXCEPT !.abilityUsed = f.abilityName, !.playerId = f.playerId,
                     !.message = [kind |-> "StorageError", n |-> 0, name |-> ""]]

\* getPlayer is rejected (line 73)
StartFault(r) ==
    /\ req[r].pc = "idle"
    /\ \E c \in CallsOf(r) :
          LET f == [IdleFrame EXCEPT !.playerId = c[1], !.abilityName = c[2],
                                     !.targetId = c[3], !.issuedAt = now]
          IN  req' = [req EXCEPT ![r] = [f EXCEPT !.pc = "done",
                                                  !.result = StorageError(f)]]
    /\ UNCHANGED <<world, playerCooldowns, now, others, outbox>>

\* updatePlayer, getMonstersInZone, updateMonster, deleteMonster, the
\* updatePlayer of awardExperience or getAllLootItems is rejected (lines 133,
\* 143, 145, 148, 223, 252)
StepFault(r) ==
    /\ req[r].via = Http
    /\ req[r].pc \in {"updatePlayer", "findMonster", "updateMonster", "deleteMonster",
                      "awardExperience", "dropLoot"}
    /\ req' = [req EXCEPT ![r].pc = "done", ![r].result = StorageError(req[r])]
    /\ UNCHANGED <<world, playerCooldowns, now, others, outbox>>

AbilityFault(r) ==
    \/ StartFault(r)
    \/ StepFault(r)

----------------------------------------------------------------------------
(* Date.now() between two reads: the clock moves on by a second or by three *)

ClockSteps == {1000, 3000}

Elapse ==
    /\ ticks < MaxTicks + 1
    /\ ticks' = ticks + 1
    /\ \E d \in ClockSteps : now' = now + d
    /\ UNCHANGED <<world, playerCooldowns, req, rebirth, regen, regenTicks, session, extra>>

----------------------------------------------------------------------------
(* Initial states *)

PlayerRow(id, level, experience, rebirthCycle, health, aura, hidden, isOnline) ==
    [id |-> id, level |-> level, experience |-> experience,
     rebirthCycle |-> rebirthCycle,
     health |-> health, maxHealth |-> IF level = 1 THEN 1000 ELSE 1000 + level * 50,
     aura |-> aura, maxAura |-> IF level = 1 THEN 500 ELSE 500 + level * 25,
     hiddenStrength |-> hidden, hiddenAgility |-> hidden,
     hiddenIntelligence |-> hidden, hiddenEndurance |-> hidden,
     positionX |-> 0, positionY |-> 0, positionZ |-> 0, rotationY |-> 0,
     isOnline |-> isOnline]

\* the states player p1 starts in: a level-60 player in its first cycle, a
\* level-99 player in its fifth cycle, a level-100 player ready for rebirth
P1Rows ==
    {PlayerRow("p1", 60, 5900, 0, 3500, 500, 0, TRUE),
     PlayerRow("p1", 99, 9890, 4, 5950, 2975, 4000, TRUE),
     PlayerRow("p1", 100, 9900, 0, 6000, 3000, 0, TRUE)}

\* p2: a new player, offline, with little aura left
P2Row == PlayerRow("p2", 1, 0, 0, 1000, 60, 0, FALSE)

MonsterRow(id, level, health, x, z, zone, isAlive) ==
    [id |-> id, level |-> level, health |-> health, maxHealth |-> level * 100,
     positionX |-> x, positionY |-> 0, positionZ |-> z, zone |-> zone,
     difficultyMultiplier |-> [num |-> 1, den |-> 1], isAlive |-> isAlive]

\* m1: wounded, exactly 50 units from the players; m2: just out of range;
\* m3: dead; m4: in another zone
InitMonsters ==
    [id \in MonsterIds |->
        CASE id = "m1" -> MonsterRow("m1", 17, 250, 30, 40, CombatZone, TRUE)
          [] id = "m2" -> MonsterRow("m2", 10, 1000, 30, 41, CombatZone, TRUE)
          [] id = "m3" -> MonsterRow("m3", 10, 0, 3, 4, CombatZone, FALSE)
          [] id = "m4" -> MonsterRow("m4", 10, 1000, 3, 4, "tutorial", TRUE)]

\* the catalog: the two items dropLoot looks up by name.  The rows are seeded
\* outside the server code; the effects of the meat are those the schema
\* gives as an example for consumables (schema.ts 79)
InitLootItems ==
    {[id |-> "bone", name |-> "Monster Bone", type |-> "material",
      effects |-> [health |-> 0, aura |-> 0]],
     [id |-> "meat", name |-> "Monster Meat", type |-> "consumable",
      effects |-> [health |-> 100, aura |-> 50]]}

\* no call of the loot endpoints, no timer has fired
InitExtra ==
    /\ invSeq = 0
    /\ collect = [k \in CollectReqs |-> IdleCollect]
    /\ itemUse = [u \in ItemReqs |-> IdleItem]
    /\ spawn = IdleSpawn
    /\ spawnLate = IdleSpawn
    /\ spawnTicks = 0
    /\ monsterSeq = 0
    /\ sweeps = 0
    /\ faults = [t \in Timers |-> {}]
    /\ lootQuery = {}
    /\ replay = NoReplay

\* the engine and the request handlers before any call or tick
InitHandlers ==
    /\ lootSeq = 0
    /\ playerCooldowns = [id \in PlayerIds |-> [a \in AbilityNameArgs |-> 0]]
    /\ now = 1000
    /\ req = [r \in Reqs |-> IdleFrame]
    /\ rebirth = [b \in RebirthReqs |-> IdleRebirth]
    /\ regen = [pc |-> "idle", todo |-> {}, wrote |-> {}]
    /\ regenTicks = 0
    /\ ticks = 0
    /\ conns = [c \in ConnIds |-> [state |-> "none", playerId |-> Unset]]
    /\ outbox = [c \in ConnIds |-> <<>>]
    /\ chatMessages = <<>>
    /\ received = 0
    /\ lastMessage = [conn |-> "", type |-> "", data |-> [raw |-> ""]]
    /\ InitExtra

\* the catalog holds both items
InitRest ==
    /\ lootItems = InitLootItems
    /\ InitHandlers

Init ==
    /\ \E row \in P1Rows : players = [id \in PlayerIds |-> IF id = "p1" THEN row ELSE P2Row]
    /\ monsters = InitMonsters
    /\ worldLoot = {}
    /\ inventory = {}
    /\ InitRest

----------------------------------------------------------------------------
(* Specifications *)

\* the steps of a useAbility call after its first
AbilitySteps(r) ==
    \/ Validate(r)
    \/ UpdatePlayerAura(r)
    \/ FindMonster(r)
    \/ UpdateMonster(r)
    \/ DeleteMonster(r)
    \/ AwardExperience(r)
    \/ DropLoot(r)

\* the steps of the useAbility call of slot r
UseAbility(r) ==
    \/ Start(r)
    \/ Validate(r)
    \/ UpdatePlayerAura(r)
    \/ FindMonster(r)
    \/ UpdateMonster(r)
    \/ DeleteMonster(r)
    \/ AwardExperience(r)
    \/ DropLoot(r)

\* the steps of the rebirth call of slot b
Rebirth(b) ==
    \/ RebirthStart(b)
    \/ RebirthCheck(b)
    \/ PerformRebirthRead(b)
    \/ PerformRebirthWrite(b)

\* the steps of a regenerator tick
Regenerator ==
    \/ RegenRead
    \/ RegenStep

\* two useAbility calls interleave at every storage call, while time passes
Next ==
    \/ \E r \in Reqs : UseAbility(r)
    \/ Tick

Spec == Init /\ [][Next]_vars

\* a useAbility call, a rebirth call and the regenerator interleave at every
\* storage call, while time passes
NextWorld ==
    \/ UseAbility("r1")
    \/ Rebirth("b1")
    \/ Regenerator
    \/ Tick

SpecWorld == Init /\ [][NextWorld]_vars

\* two rebirth calls and a useAbility call interleave at every storage call
NextRebirth ==
    \/ \E b \in RebirthReqs : Rebirth(b)
    \/ UseAbility("r1")

SpecRebirth == Init /\ [][NextRebirth]_vars

\* the dispatcher: connections open and close, their messages are handled, a
\* use_ability call interleaves with them at every storage call
NextSession ==
    \/ \E c \in ConnIds : \/ Connect(c)
                          \/ Close(c)
                          \/ Authenticate(c)
                          \/ ChatMessage(c)
                          \/ PlayerMove(c)
                          \/ StartWs("r1", c)
                          \/ Malformed(c)
    \/ AbilitySteps("r1")

\* the dispatcher serves the level-60 player and the new player
InitSession == Init /\ players["p1"].level = 60

SpecSession == InitSession /\ [][NextSession]_vars

\* one call served by the HTTP endpoint and then, from the same state, as a
\* use_ability message; connections open and authenticate beforehand
NextEntry ==
    \/ /\ replay.phase = "none"
       /\ \E c \in EntryConns : Connect(c) \/ Authenticate(c)
    \/ \E c \in EntryConns : EntryWs(c)
    \/ Mark
    \/ EntryHttp
    \/ Rewind
    \/ AbilitySteps("r1")
    \/ AbilitySteps("r2") /\ SameDraws

SpecEntry == Init /\ [][NextEntry]_vars

\* the tables the spawner is run on: n players online and m live monsters in
\* the zone.  Players p3..p7 only stand in the players table
SpawnPlayerIds == <<"p1", "p2", "p3", "p4", "p5", "p6", "p7">>
ExtraMonsterIds == <<"m5", "m6", "m7", "m8", "m9", "m10", "m11", "m12", "m13", "m14",
                     "m15", "m16", "m17", "m18", "m19", "m20", "m21", "m22", "m23">>

\* <<rebirth cycles of the online players, p1 first; live monsters in the
\* zone>>: nobody online; a player alone; three players whose average is 4/3;
\* the four players of the example; seven players
SpawnWorlds ==
    {<<<<>>, 2>>, <<<<0>>, 2>>, <<<<0>>, 3>>,
     <<<<1, 1, 2>>, 8>>, <<<<1, 1, 2>>, 9>>,
     <<<<0, 1, 2, 3>>, 5>>, <<<<0, 1, 2, 3>>, 11>>, <<<<0, 1, 2, 3>>, 12>>,
     <<<<0, 0, 0, 0, 0, 0, 0>>, 19>>, <<<<0, 0, 0, 0, 0, 0, 0>>, 20>>,
     <<<<0, 0, 0, 0, 0, 0, 0>>, 21>>}

\* p1 and p2 always have a row; the players of the roster are online
RosterPlayers(cycles) ==
    [id \in {SpawnPlayerIds[i] : i \in 1..Max(2, Len(cycles))} |->
        LET i == CHOOSE k \in 1..Len(SpawnPlayerIds) : SpawnPlayerIds[k] = id
        IN  IF i <= Len(cycles)
            THEN PlayerRow(id, 60, 5900, cycles[i], 3500, 500, 0, TRUE)
            ELSE PlayerRow(id, 60, 5900, 0, 3500, 500, 0, FALSE)]

\* the monsters m1..m4 and further live monsters of the zone, m in all
ZoneMonsters(m) ==
    [id \in MonsterIds \cup {ExtraMonsterIds[i] : i \in 1..(m - 2)} |->
        IF id \in MonsterIds THEN InitMonsters[id]
        ELSE MonsterRow(id, 10, 1000, 60, 80, CombatZone, TRUE)]

InitSpawner ==
    /\ \E w \in SpawnWorlds : /\ players = RosterPlayers(w[1])
                              /\ monsters = ZoneMonsters(w[2])
    /\ worldLoot = {}
    /\ inventory = {}
    /\ InitRest

\* the spawner's ticks interleave with a useAbility call at every storage call
NextSpawner ==
    \/ Spawner
    \/ UseAbility("r1")

SpecSpawner == InitSpawner /\ [][NextSpawner]_vars

\* a world_loot row of the given item, dropped by p1 at the origin of the zone
LootRow(id, itemId, quantity, zone, expiresAt) ==
    [id |-> id, itemId |-> itemId, quantity |-> quantity,
     positionX |-> 0, positionY |-> 0, positionZ |-> 0,
     zone |-> zone, droppedBy |-> "p1",
     spawnedAt |-> expiresAt - 300000, expiresAt |-> expiresAt]

\* 101: expired before the start; 102: expires at the start; 103: expires at
\* the end of the first tick of the clock; 104: fresh; 105: fresh, in another
\* zone; 106: expires half a second after the start
InitWorldLoot ==
    {LootRow(101, "bone", 2, CombatZone, 500),
     LootRow(102, "meat", 1, CombatZone, 1000),
     LootRow(103, "bone", 3, CombatZone, 1000 + TickMs),
     LootRow(104, "meat", 2, CombatZone, 301000),
     LootRow(105, "bone", 1, "tutorial", 301000),
     LootRow(106, "bone", 1, CombatZone, 1500)}

\* the inventories the players start with: nothing, or p1 holds a bone and
\* two pieces of meat
InitInventories ==
    {{},
     {[id |-> 201, playerId |-> "p1", itemId |-> "bone", quantity |-> 1],
      [id |-> 202, playerId |-> "p1", itemId |-> "meat", quantity |-> 2]}}

InitLoot ==
    /\ \E row \in P1Rows : players = [id \in PlayerIds |-> IF id = "p1" THEN row ELSE P2Row]
    /\ monsters = InitMonsters
    /\ worldLoot = InitWorldLoot
    /\ inventory \in InitInventories
    /\ InitRest

\* collecting loot, the loot query, the janitor and the clock
NextLoot ==
    \/ \E k \in CollectReqs : Collect(k)
    \/ LootQuery
    \/ Janitor
    \/ Tick

SpecLoot == InitLoot /\ [][NextLoot]_vars

\* using items while loot is collected
NextInventory ==
    \/ \E u \in ItemReqs : UseItem(u)
    \/ Collect("k1")

SpecInventory == InitLoot /\ [][NextInventory]_vars

\* two monsters within reach of p1, each with little health left: m1 (level
\* 17) and m2, now a level-10 monster standing beside it
InitKills ==
    /\ players = [id \in PlayerIds |->
                     IF id = "p1" THEN PlayerRow("p1", 60, 5900, 0, 3500, 500, 0, TRUE)
                     ELSE P2Row]
    /\ monsters = [InitMonsters EXCEPT
                      !["m1"] = MonsterRow("m1", 17, 100, 30, 40, CombatZone, TRUE),
                      !["m2"] = MonsterRow("m2", 10, 40, 30, 40, CombatZone, TRUE)]
    /\ worldLoot = {}
    /\ inventory = {}
    /\ InitRest

\* two useAbility calls and the clock, as in Spec
SpecKills == InitKills /\ [][Next]_vars

\* p1 online at level 60, nothing in the inventories, the loot of InitLoot
InitTimers ==
    /\ InitLoot
    /\ players["p1"].level = 60
    /\ inventory = {}

\* the spawner draws level 10 and the first of the positions
TimerDraws ==
    /\ spawn'.level \in {0, 10}
    /\ \A id \in DOMAIN monsters' \ DOMAIN monsters :
          <<monsters'[id].positionX, monsters'[id].positionZ>> = <<3, 4>>

\* the collect call that is served meanwhile: p2 picks up the loot 103
TimerCall ==
    collect'["k1"].playerId \in {"", "p2"}

\* the three periodic processes, their storage errors and a collect call
NextTimers ==
    \/ Spawner /\ TimerDraws
    \/ SpawnFault
    \/ Regenerator
    \/ RegenFault
    \/ Janitor
    \/ JanitorFault
    \/ Collect("k1") /\ TimerCall

\* setInterval fires each callback again and again and every storage call
\* settles, by answering or by rejecting; a handler that was invoked runs on
FairTimers ==
    /\ WF_vars((Spawner /\ TimerDraws) \/ SpawnFault)
    /\ WF_vars(Regenerator \/ RegenFault)
    /\ WF_vars(Janitor \/ JanitorFault)
    /\ WF_vars(Collect("k1") /\ TimerCall)

SpecTimers == InitTimers /\ [][NextTimers]_vars /\ FairTimers

\* the catalogs a kill may find: both items, the bone alone, the meat alone,
\* nothing
Catalogs ==
    {InitLootItems,
     {i \in InitLootItems : i.name = "Monster Bone"},
     {i \in InitLootItems : i.name = "Monster Meat"},
     {}}

InitDrops ==
    /\ \E row \in P1Rows : players = [id \in PlayerIds |-> IF id = "p1" THEN row ELSE P2Row]
    /\ monsters = InitMonsters
    /\ worldLoot = {}
    /\ inventory = {}
    /\ lootItems \in Catalogs
    /\ InitHandlers

\* one useAbility call, whatever the catalog holds
NextDrops ==
    UseAbility("r1")

SpecDrops == InitDrops /\ [][NextDrops]_vars

\* two useAbility calls, each of whose storage calls may be rejected
NextFaults ==
    \E r \in Reqs : UseAbility(r) \/ AbilityFault(r)

SpecFaults == InitSession /\ [][NextFaults]_vars

\* a useAbility call while the clock moves on in steps that end before, at
\* and after the expiry of a cooldown
NextCooldowns ==
    \/ UseAbility("r1")
    \/ Elapse

SpecCooldowns == InitSession /\ [][NextCooldowns]_vars

\* the spawner alone, its ticks overlapping
NextOverlap ==
    \/ Spawner
    \/ SpawnLate

SpecOverlap == InitSpawner /\ [][NextOverlap]_vars

----------------------------------------------------------------------------
(* Properties *)

\* slot r takes a step
Steps(r) == req'[r] # req[r]

\* C1: every player has 0 <= health <= maxHealth and 0 <= aura <= maxAura, in
\* every state reached by interleaving ability uses, regenerator ticks and
\* rebirths
PlayerBounds ==
    \A id \in PlayerIds :
        /\ 0 <= players[id].health /\ players[id].health <= players[id].maxHealth
        /\ 0 <= players[id].aura /\ players[id].aura <= players[id].maxAura

\* C2: two calls for the same player and ability name never both succeed with
\* cooldowns armed less than the ability's cooldown apart
OneSuccessPerCooldown ==
    \A r, s \in Reqs :
        ( /\ r # s
          /\ req[r].pc = "done" /\ req[r].result.success
          /\ req[s].pc = "done" /\ req[s].result.success
          /\ req[r].playerId = req[s].playerId
          /\ req[r].abilityName = req[s].abilityName
          /\ req[r].armedAt <= req[s].armedAt )
        => req[s].armedAt - req[r].armedAt >= GetAbility(req[r].abilityName).cooldown

\* the checks of a validating call f, stated on what the call read
LevelMet(f) == f.player.level >= GetAbility(f.abilityName).requiredLevel
AuraMet(f) == f.player.aura >= GetAbility(f.abilityName).auraCost
Resolved(f) == f.player # Null /\ HasAbility(f.abilityName)

\* C3 as claimed: once a call for (p, a) has succeeded and armed the cooldown at
\* time t, a call for (p, a) issued after it returned and before t + cooldown
\* fails with the "on cooldown" message, and one issued at or after t + cooldown
\* is not rejected for cooldown
ReuseRejectedAsClaimed ==
    \A r, s \in Reqs :
        ( /\ req[s].pc = "done" /\ req[s].result.success
          /\ req[r].pc = "done" /\ s \in req[r].issuedAfter
          /\ req[r].playerId = req[s].playerId
          /\ req[r].abilityName = req[s].abilityName )
        => LET expiry == req[s].armedAt + GetAbility(req[s].abilityName).cooldown
           IN  IF req[r].issuedAt < expiry
               THEN /\ ~req[r].result.success
                    /\ req[r].result.message.kind = "Ability on cooldown"
               ELSE req[r].result.message.kind # "Ability on cooldown"

\* C3, amended: arming at time t stores the expiry t + cooldown, a stored expiry
\* never moves back, a call whose cooldown check runs before the stored expiry
\* fails (with the "on cooldown" message and the exact remaining time when its
\* level and aura checks pass), and a call whose check runs at or after the
\* stored expiry is not rejected for cooldown
CooldownWindow ==
    [][ /\ \A id \in PlayerIds : \A a \in AbilityNameArgs :
              playerCooldowns'[id][a] >= playerCooldowns[id][a]
        /\ \A r \in Reqs :
              LET f == req[r]
                  res == req'[r].result
              IN  /\ (Steps(r) /\ f.pc = "updatePlayer") =>
                        playerCooldowns'[f.playerId][f.abilityName]
                            = now + GetAbility(f.abilityName).cooldown
                  /\ (Steps(r) /\ f.pc = "validate" /\ f.playerId \in PlayerIds) =>
                        LET expiry == playerCooldowns[f.playerId][f.abilityName]
                        IN  IF now < expiry
                            THEN /\ req'[r].pc = "done" /\ ~res.success
                                 /\ (LevelMet(f) /\ AuraMet(f)) =>
                                       /\ res.message.kind = "Ability on cooldown"
                                       /\ res.message.n = expiry - now
                            ELSE res.message.kind # "Ability on cooldown"
      ]_vars

\* C3: a call issued after a successful call for the same player and name has
\* returned is rejected as on cooldown
ReuseRejected ==
    \E r, s \in Reqs :
        /\ req[s].pc = "done" /\ req[s].result.success
        /\ req[r].pc = "done" /\ s \in req[r].issuedAfter
        /\ req[r].playerId = req[s].playerId
        /\ req[r].abilityName = req[s].abilityName
        /\ ~req[r].result.success
        /\ req[r].result.message.kind = "Ability on cooldown"

\* C4: the checks run in the order player, ability, level, aura, cooldown and
\* the first one that fails decides the message; every failure is a returned
\* result with success = false, with auraCost 0 when the player or the ability
\* is unresolved and the ability's cost otherwise; a failing call writes
\* nothing to the storage or to the cooldown map and takes no further step
ValidationOrder ==
    [][ \A r \in Reqs :
          LET f == req[r]
              res == req'[r].result
              failed == req'[r].pc = "done"
              fails(kind, cost) == /\ failed
                                   /\ res.message.kind = kind
                                   /\ res.auraCost = cost
          IN  /\ (f.pc = "done" /\ ~f.result.success) => ~Steps(r)
              /\ (Steps(r) /\ f.pc = "validate") =>
                  /\ req'[r].pc \in {"done", "updatePlayer"}
                  /\ failed =>
                        /\ ~res.success
                        /\ res.abilityUsed = f.abilityName /\ res.playerId = f.playerId
                        /\ players' = players /\ monsters' = monsters
                        /\ worldLoot' = worldLoot
                        /\ playerCooldowns' = playerCooldowns
                  /\ IF f.player = Null THEN fails("Player not found", 0)
                     ELSE IF ~HasAbility(f.abilityName) THEN fails("Unknown ability", 0)
                     ELSE LET ability == GetAbility(f.abilityName)
                          IN  IF ~LevelMet(f)
                              THEN /\ fails("Requires level", ability.auraCost)
                                   /\ res.message.n = ability.requiredLevel
                              ELSE IF ~AuraMet(f)
                              THEN fails("Not enough aura", ability.auraCost)
                              ELSE IF now < playerCooldowns[f.playerId][f.abilityName]
                              THEN fails("Ability on cooldown", ability.auraCost)
                              ELSE ~failed
      ]_vars

\* C4: a call that fails two checks at once (level and aura) has returned
SeveralChecksFail ==
    \E r \in Reqs :
        /\ req[r].pc = "done" /\ ~req[r].result.success
        /\ Resolved(req[r]) /\ ~LevelMet(req[r]) /\ ~AuraMet(req[r])

\* C5: a call of an existing player for a resolvable ability whose level
\* requirement is met and whose cost exceeds the player's aura returns
\* success = false with "Not enough aura" and changes no player's aura, no
\* cooldown entry and no monster
NotEnoughAura ==
    [][ \A r \in Reqs :
          LET f == req[r]
          IN  ( /\ Steps(r) /\ f.pc = "validate"
                /\ Resolved(f) /\ LevelMet(f) /\ ~AuraMet(f) )
              => /\ req'[r].pc = "done"
                 /\ ~req'[r].result.success
                 /\ req'[r].result.message.kind = "Not enough aura"
                 /\ \A id \in PlayerIds : players'[id].aura = players[id].aura
                 /\ playerCooldowns' = playerCooldowns
                 /\ monsters' = monsters
      ]_vars

\* C5: a call has been refused for lack of aura
AuraRefused ==
    \E r \in Reqs :
        /\ req[r].pc = "done" /\ ~req[r].result.success
        /\ Resolved(req[r]) /\ LevelMet(req[r]) /\ ~AuraMet(req[r])
        /\ players[req[r].playerId].aura = req[r].player.aura

\* C6: a call that passes the five checks goes on to write the player's aura
\* as (aura it read - cost) and nothing else of the player, arms the cooldown
\* of (player, name) to expire cooldown ms later, and returns success = true
\* with damage = ability damage + hiddenStrength div 10, with or without a
\* target; its later steps leave the aura alone unless they level the player up
AbilitySuccess ==
    [][ \A r \in Reqs :
          LET f == req[r]
              g == req'[r]
          IN  Steps(r) =>
              /\ ( /\ f.pc = "validate" /\ Resolved(f) /\ LevelMet(f) /\ AuraMet(f)
                   /\ now >= playerCooldowns[f.playerId][f.abilityName] )
                 => g.pc = "updatePlayer"
              /\ f.pc = "updatePlayer" =>
                    LET ability == GetAbility(f.abilityName)
                    IN  /\ players' = [players EXCEPT ![f.playerId].aura =
                                          f.player.aura - ability.auraCost]
                        /\ playerCooldowns'[f.playerId][f.abilityName]
                               = now + ability.cooldown
                        /\ g.pc = IF f.targetId = NoTarget THEN "done" ELSE "findMonster"
              /\ (f.pc \notin {"idle", "validate"} /\ g.pc = "done") =>
                    LET ability == GetAbility(f.abilityName)
                    IN  /\ g.result.success /\ g.result.hasDamage
                        /\ g.result.damage
                               = ability.damage + (f.player.hiddenStrength \div 10)
                        /\ g.result.auraCost = ability.auraCost
                        /\ g.result.targetId = f.targetId
              /\ f.pc \in {"findMonster", "updateMonster", "deleteMonster", "dropLoot"}
                    => players' = players
              /\ f.pc = "awardExperience" =>
                    LET newLevel == (players'[f.playerId].experience \div 100) + 1
                    IN  ~(newLevel > f.player.level /\ newLevel <= 100)
                        => players'[f.playerId].aura = players[f.playerId].aura
      ]_vars

\* C6: the level-60 player with aura 500 has cast ground_dig_up, its aura is
\* 400, and its next ground_dig_up was refused as on cooldown
DigUpThenCooldown ==
    \E r, s \in Reqs :
        /\ req[s].pc = "done" /\ req[s].result.success
        /\ req[s].abilityName = ground_dig_up /\ req[s].playerId = "p1"
        /\ req[s].player.level = 60 /\ req[s].player.aura = 500
        /\ req[s].result.damage = 300
        /\ players["p1"].aura = 400
        /\ playerCooldowns["p1"][ground_dig_up] = req[s].armedAt + 5000
        /\ req[r].pc = "done" /\ req[r].abilityName = ground_dig_up
        /\ req[r].playerId = "p1" /\ s \in req[r].issuedAfter
        /\ req[r].result.message.kind = "Ability on cooldown"

\* C7: the target lookup goes on to the hit exactly when targetId names a
\* monster that is alive, in the combat zone and within 50 units (3D) of the
\* position the call read; a call changes a monster, a player's experience or
\* the world loot only for the monster it so resolved, and a call whose target
\* is missing, dead, in another zone or out of range returns without any of it
TargetResolution ==
    [][ \A r \in Reqs :
          LET f == req[r]
              g == req'[r]
              t == f.targetId
          IN  Steps(r) =>
              /\ f.pc = "findMonster" =>
                    LET valid ==
                          /\ t \in DOMAIN monsters
                          /\ monsters[t].isAlive
                          /\ monsters[t].zone = CombatZone
                          /\ (f.player.positionX - monsters[t].positionX)
                                 * (f.player.positionX - monsters[t].positionX)
                             + (f.player.positionY - monsters[t].positionY)
                                 * (f.player.positionY - monsters[t].positionY)
                             + (f.player.positionZ - monsters[t].positionZ)
                                 * (f.player.positionZ - monsters[t].positionZ)
                             <= 2500
                    IN  IF valid
                        THEN g.pc = "updateMonster" /\ g.monster = monsters[t]
                        ELSE g.pc = "done" /\ g.monster = Null /\ g.result.success
              /\ ( \/ monsters' # monsters
                   \/ worldLoot' # worldLoot
                   \/ \E id \in PlayerIds :
                         players'[id].experience # players[id].experience )
                 => /\ f.monster # Null /\ f.monster.id = t
                    /\ f.monster.isAlive /\ f.monster.zone = CombatZone
                    /\ \A m \in MonsterIds \ {t} : monsters'[m] = monsters[m]
      ]_vars

\* C7: one call aimed at the out-of-range monster has returned with that
\* monster untouched, another has hit the monster standing at exactly 50 units
FarMissNearHit ==
    \E r, s \in Reqs :
        /\ req[r].pc = "done" /\ req[r].targetId = "m2" /\ req[r].result.success
        /\ req[r].monster = Null
        /\ monsters["m2"] = InitMonsters["m2"]
        /\ req[s].pc = "done" /\ req[s].targetId = "m1" /\ req[s].monster # Null
        /\ monsters["m1"].health < InitMonsters["m1"].health

\* C8 as claimed: a monster whose health an ability use drives to 0 is
\* soft-deleted, never becomes alive again, and the killer's experience grows
\* by floor(monsterLevel * 10 * (1 + rebirthCycle * 0.1))
KillRewardAsClaimed ==
    [][ /\ \A m \in MonsterIds : monsters'[m].isAlive => monsters[m].isAlive
        /\ \A r \in Reqs :
              LET f == req[r]
              IN  /\ (Steps(r) /\ f.pc = "updateMonster" /\ f.newHealth = 0)
                        => req'[r].pc = "deleteMonster"
                  /\ (Steps(r) /\ f.pc = "deleteMonster")
                        => ~monsters'[f.monster.id].isAlive
                  /\ (Steps(r) /\ f.pc = "awardExperience") =>
                        players'[f.playerId].experience
                            = players[f.playerId].experience
                              + ((f.monster.level * 10
                                    * (10 + players[f.playerId].rebirthCycle)) \div 10)
      ]_vars

LevelCappedAsClaimed ==
    [][ \A r \in Reqs :
          LET f == req[r]
              id == f.playerId
          IN  ( /\ Steps(r) /\ f.pc = "awardExperience"
                /\ f.player.level < 100
                /\ (players'[id].experience \div 100) + 1 > 100 )
              => /\ players'[id].level = 100
                 /\ players'[id].maxHealth = 6000 /\ players'[id].health = 6000
                 /\ players'[id].maxAura = 3000 /\ players'[id].aura = 3000
      ]_vars

\* C11: every player's level is in 1..100 in every state reached by
\* interleaving ability uses (with their level-ups), rebirths and the
\* regenerator
LevelInRange ==
    \A id \in PlayerIds : players[id].level >= 1 /\ players[id].level <= 100

\* C11: the level-100 player was reborn while its ability use was in flight,
\* and the kill's experience then landed on the reborn row, level 1
AwardAfterRebirth ==
    /\ players["p1"].level = 1 /\ players["p1"].rebirthCycle = 1
    /\ players["p1"].experience = 10070
    /\ \E r \in Reqs : req[r].pc = "done" /\ req[r].monster # Null

\* C12: a rebirth request that read a level below 100 ends with status 400
\* and none of its steps writes anything; a request that read level >= 100
\* goes on to performRebirth, whose write sets level = 1, experience = 0,
\* rebirthCycle = old + 1, health = maxHealth = 1000, aura = maxAura = 500 and
\* adds oldLevel * 10 to each of the four hidden stats (old values: the row
\* performRebirth read), leaving every other field and player alone
RebirthEffect ==
    [][ \A b \in RebirthReqs :
          LET f == rebirth[b]
              g == rebirth'[b]
              id == f.playerId
          IN  g # f =>
              /\ f.pc \in {"idle", "check", "performRead"}
                    => UNCHANGED <<players, monsters, worldLoot, playerCooldowns>>
              /\ f.pc = "check" =>
                    IF f.player = Null THEN g.pc = "done" /\ g.status = 404
                    ELSE IF f.player.level < 100 THEN g.pc = "done" /\ g.status = 400
                    ELSE g.pc = "performRead"
              /\ f.pc = "performWrite" =>
                    /\ g.pc = "done" /\ g.status = 200
                    /\ players' = [players EXCEPT
                          ![id].level = 1,
                          ![id].experience = 0,
                          ![id].rebirthCycle = f.row.rebirthCycle + 1,
                          ![id].health = 1000, ![id].maxHealth = 1000,
                          ![id].aura = 500, ![id].maxAura = 500,
                          ![id].hiddenStrength = f.row.hiddenStrength + f.row.level * 10,
                          ![id].hiddenAgility = f.row.hiddenAgility + f.row.level * 10,
                          ![id].hiddenIntelligence =
                              f.row.hiddenIntelligence + f.row.level * 10,
                          ![id].hiddenEndurance = f.row.hiddenEndurance + f.row.level * 10]
                    /\ UNCHANGED <<monsters, worldLoot, playerCooldowns>>
      ]_vars

\* C12: the level-100 player has been reborn by one request (hidden stats
\* 0 -> 1000) and a following request, reading level 1, was refused
RebornThenRefused ==
    /\ rebirth["b1"].pc = "done" /\ rebirth["b1"].status = 200
    /\ rebirth["b1"].row.level = 100
    /\ rebirth["b2"].pc = "done" /\ rebirth["b2"].status = 400
    /\ LET p == players["p1"]
       IN  /\ p.level = 1 /\ p.experience = 0 /\ p.rebirthCycle = 1
           /\ p.health = 1000 /\ p.maxHealth = 1000 /\ p.aura = 500 /\ p.maxAura = 500
           /\ p.hiddenStrength = 1000 /\ p.hiddenAgility = 1000
           /\ p.hiddenIntelligence = 1000 /\ p.hiddenEndurance = 1000

\* C13 as claimed: a step changes a player's rebirthCycle or hidden stats only
\* when the player's stored level is >= 100, and then raises rebirthCycle by
\* exactly 1 and each hidden stat by exactly level * 10 (1000 at level 100);
\* hidden stats never decrease
RebirthOnlyAtCap ==
    [][ \A id \in PlayerIds :
          LET o == players[id]
              n == players'[id]
          IN  /\ n.hiddenStrength >= o.hiddenStrength
              /\ n.hiddenAgility >= o.hiddenAgility
              /\ n.hiddenIntelligence >= o.hiddenIntelligence
              /\ n.hiddenEndurance >= o.hiddenEndurance
              /\ ( \/ n.rebirthCycle # o.rebirthCycle
                   \/ n.hiddenStrength # o.hiddenStrength
                   \/ n.hiddenAgility # o.hiddenAgility
                   \/ n.hiddenIntelligence # o.hiddenIntelligence
                   \/ n.hiddenEndurance # o.hiddenEndurance )
                 => /\ o.level >= 100
                    /\ n.rebirthCycle = o.rebirthCycle + 1
                    /\ n.hiddenStrength = o.hiddenStrength + o.level * 10
                    /\ n.hiddenAgility = o.hiddenAgility + o.level * 10
                    /\ n.hiddenIntelligence = o.hiddenIntelligence + o.level * 10
                    /\ n.hiddenEndurance = o.hiddenEndurance + o.level * 10
      ]_vars

\* C14 as claimed: a call by an existing player that names an ability by its
\* display name (Stone Bullet, Ground Dig-Up) resolves to the definition of the
\* wire identifier (it is not refused as unknown and reports that ability's
\* cost), and a name matching no ability is refused as unknown
DisplayNamesResolve ==
    \A r \in Reqs :
        (req[r].pc = "done" /\ req[r].player # Null) =>
            LET a == req[r].abilityName
                res == req[r].result
            IN  /\ a \in {stone_bullet, StoneBulletDisplay} =>
                      /\ res.message.kind # "Unknown ability"
                      /\ res.auraCost = abilities[stone_bullet].auraCost
                /\ a \in {ground_dig_up, GroundDigUpDisplay} =>
                      /\ res.message.kind # "Unknown ability"
                      /\ res.auraCost = abilities[ground_dig_up].auraCost
                /\ a = fireball =>
                      ~res.success /\ res.message.kind = "Unknown ability"

\* the step takes a message of the given type from connection c
Handled(c, type) ==
    /\ received' = received + 1
    /\ lastMessage'.conn = c
    /\ lastMessage'.type = type

\* C15 as claimed: after an authenticate message that carries the identity
\* inside data, {type: 'authenticate', data: {playerId: P}}, the connection's
\* identity is P, player P is online, and nothing was sent to any connection
AuthenticateEnvelope ==
    [][ \A c \in ConnIds :
          (Handled(c, "authenticate") /\ lastMessage'.data.form = "data") =>
              LET P == lastMessage'.data.playerId
              IN  /\ conns'[c].playerId = P
                  /\ players'[P].isOnline
                  /\ outbox' = outbox
      ]_vars

\* C16: a use_ability message on a connection with an identity starts
\* useAbility for that identity with the message's ability and target and
\* sends nothing yet; no step of the call before its last sends anything; when
\* the call returns and the sender is open, the sender gets exactly one
\* ability_result carrying the result, every other open connection gets one
\* combat_action carrying it if the result has success = true and nothing
\* otherwise, and connections that are not open get nothing
AbilityNotification ==
    [][ /\ \A c \in ConnIds :
              (Handled(c, "use_ability") /\ conns[c].playerId # Unset) =>
                  /\ \E r \in Reqs :
                        /\ req[r].pc = "idle" /\ req'[r].pc = "validate"
                        /\ req'[r].via = c
                        /\ req'[r].playerId = conns[c].playerId
                        /\ req'[r].abilityName = lastMessage'.data.abilityName
                        /\ req'[r].targetId = lastMessage'.data.targetId
                  /\ outbox' = outbox
        /\ \A r \in Reqs :
              LET f == req[r]
                  g == req'[r]
                  c == g.via
              IN  (Steps(r) /\ c # Http) =>
                  /\ g.pc # "done" => outbox' = outbox
                  /\ (f.pc # "idle" /\ g.pc = "done" /\ conns[c].state = "open") =>
                        /\ outbox'[c] = Append(outbox[c],
                                               [type |-> "ability_result",
                                                data |-> g.result])
                        /\ \A d \in ConnIds \ {c} :
                              outbox'[d] =
                                  IF conns[d].state = "open" /\ g.result.success
                                  THEN Append(outbox[d], [type |-> "combat_action",
                                                          data |-> g.result])
                                  ELSE outbox[d]
      ]_vars

\* C16: connection c1, authenticated as p1, has used stone_bullet: c1 holds
\* the ability_result and no combat_action, the open connection c2 holds the
\* combat_action, the closed connection c3 holds nothing
AbilityBroadcast ==
    /\ conns["c1"].playerId = "p1" /\ conns["c1"].state = "open"
    /\ req["r1"].pc = "done" /\ req["r1"].via = "c1" /\ req["r1"].result.success
    /\ outbox["c1"] = <<[type |-> "ability_result", data |-> req["r1"].result]>>
    /\ conns["c2"].state = "open"
    /\ outbox["c2"] = <<[type |-> "combat_action", data |-> req["r1"].result]>>
    /\ conns["c3"].state = "closed" /\ outbox["c3"] = <<>>

\* C17: a player_move message on a connection with an identity writes the
\* position (and the rotation, when one is given) of that identity's player and
\* nothing else, sends one player_position to every other open connection and
\* nothing to the sender or to a connection that is not open
PositionUpdate ==
    [][ \A c \in ConnIds :
          (Handled(c, "player_move") /\ conns[c].playerId # Unset) =>
              LET id == conns[c].playerId
                  d == lastMessage'.data
              IN  /\ players' = [players EXCEPT
                                    ![id].positionX = d.x,
                                    ![id].positionY = d.y,
                                    ![id].positionZ = d.z,
                                    ![id].rotationY =
                                        IF d.hasRotation THEN d.rotation ELSE @]
                  /\ UNCHANGED <<monsters, worldLoot, playerCooldowns, chatMessages, req,
                                 conns>>
                  /\ outbox'[c] = outbox[c]
                  /\ \A e \in ConnIds \ {c} :
                        outbox'[e] =
                            IF conns[e].state = "open"
                            THEN Append(outbox[e],
                                        [type |-> "player_position",
                                         data |-> [playerId |-> id, move |-> d]])
                            ELSE outbox[e]
      ]_vars

\* C17: p2, authenticated on c1, has moved to (3, 0, 4) facing 90: the open
\* connection c2 holds the player_position, c1 holds nothing
MovedAndSeen ==
    /\ conns["c1"].playerId = "p2" /\ conns["c1"].state = "open"
    /\ lastMessage.conn = "c1" /\ lastMessage.type = "player_move"
    /\ players["p2"].positionX = 3 /\ players["p2"].positionZ = 4
    /\ players["p2"].rotationY = 90
    /\ players["p1"].positionX = 0
    /\ outbox["c1"] = <<>>
    /\ conns["c2"].state = "open"
    /\ outbox["c2"] = <<[type |-> "player_position",
                         data |-> [playerId |-> "p2", move |-> lastMessage.data]]>>

UnauthenticatedIgnored ==
    [][ \A c \in ConnIds :
          ( /\ \/ Handled(c, "chat_message")
               \/ Handled(c, "player_move")
               \/ Handled(c, "use_ability")
            /\ conns[c].playerId = Unset )
          => /\ UNCHANGED <<players, monsters, worldLoot, playerCooldowns, chatMessages,
                            req, conns>>
             /\ \A e \in ConnIds \ {c} : outbox'[e] = outbox[e]
      ]_vars

\* C19: c1, without identity, has sent a chat_message: no row is stored, the
\* open connection c2 holds nothing, c1 holds the error reply
UnauthenticatedChat ==
    /\ conns["c1"].playerId = Unset /\ conns["c1"].state = "open"
    /\ lastMessage.conn = "c1" /\ lastMessage.type = "chat_message"
    /\ received = 1
    /\ chatMessages = <<>>
    /\ outbox["c1"] = <<ErrorReply>>
    /\ conns["c2"].state = "open" /\ outbox["c2"] = <<>>

\* C20: a message that does not parse gets exactly one error reply, sent to
\* its sender; nothing is sent to another connection, no stored state and no
\* ability call changes, and every connection keeps its state and identity
MalformedIsolated ==
    [][ \A c \in ConnIds :
          Handled(c, "malformed") =>
              /\ outbox'[c] = Append(outbox[c], ErrorReply)
              /\ \A e \in ConnIds \ {c} : outbox'[e] = outbox[e]
              /\ conns' = conns /\ conns'[c].state = "open"
              /\ UNCHANGED <<players, monsters, worldLoot, playerCooldowns, chatMessages,
                             req>>
      ]_vars

\* C20: after c1's unparsable message (the error reply is first in its
\* outbox), c2 authenticated as p2 and chatted, and c1, still open, received
\* that chat
MalformedThenServed ==
    /\ conns["c1"].state = "open" /\ conns["c2"].playerId = "p2"
    /\ Len(chatMessages) = 1 /\ chatMessages[1].playerId = "p2"
    /\ players["p2"].isOnline
    /\ outbox["c1"] = <<ErrorReply, [type |-> "chat_message", data |-> chatMessages[1]]>>

----------------------------------------------------------------------------
\* C21: when a connection that carries the identity of a player closes, that
\* player's row is marked offline by the close handler, and nothing else in the
\* players table changes; when a connection without identity closes, the
\* players table does not change
CloseMarksOffline ==
    [][ \A c \in ConnIds :
           (conns[c].state = "open" /\ conns'[c].state = "closed") =>
               IF conns[c].playerId \in PlayerIds
               THEN /\ ~players'[conns[c].playerId].isOnline
                    /\ players' = [players EXCEPT ![conns[c].playerId].isOnline = FALSE]
               ELSE players' = players ]_vars

\* witness of C21: c3 authenticated as p2, which put p2 online, and closed; p2
\* is offline although c1, which never set an identity, is still open
ClosedAndOffline ==
    /\ conns["c3"].state = "closed" /\ conns["c3"].playerId = "p2"
    /\ lastMessage.conn = "c3" /\ lastMessage.type = "authenticate"
    /\ ~players["p2"].isOnline
    /\ conns["c1"].state = "open" /\ conns["c1"].playerId = Unset

----------------------------------------------------------------------------
\* C22: a call served by the HTTP endpoint and the same call served as a
\* use_ability message, from the same tables, cooldowns and clock, return the
\* same AbilityResult and leave the same players, monsters, cooldowns and
\* world loot, dropLoot drawing the same random numbers in both
EntryPointsAgree ==
    (replay.phase = "replayed" /\ req["r2"].pc = "done") =>
        /\ req["r2"].result = req["r1"].result
        /\ players = replay.post[1]
        /\ monsters = replay.post[2]
        /\ playerCooldowns = replay.post[5]
        /\ worldLoot = replay.post[3]
        /\ lootSeq = replay.post[4]

\* witness of C22: both runs killed m1 with ground_dig_up, the second one on
\* behalf of connection c1, and both dropped loot
BothEntriesKill ==
    /\ replay.phase = "replayed"
    /\ req["r1"].pc = "done" /\ req["r1"].via = Http /\ req["r1"].result.success
    /\ req["r2"].pc = "done" /\ req["r2"].via = "c1"
    /\ req["r2"].abilityName = ground_dig_up /\ req["r2"].targetId = "m1"
    /\ ~monsters["m1"].isAlive /\ ~replay.post[2]["m1"].isAlive
    /\ replay.pre[2]["m1"].isAlive
    /\ worldLoot # {} /\ worldLoot = replay.post[3]

----------------------------------------------------------------------------
\* C23: a spawner tick that finds no player online creates nothing; one that
\* finds n >= 1 players online and then m live monsters in the zone goes on to
\* create a monster exactly when m < min(20, 3n); the monster it creates is the
\* only change to the monsters table, has a level in 10..99, difficulty
\* multiplier 1 + 0.5 * (average rebirth cycle of the n players) and
\* health = maxHealth = floor(level * 100 * multiplier)
SpawnerTickAsClaimed ==
    [][ LET n == Cardinality(spawn.online)
            sum == SumRebirthCycles(spawn.online)
            m == Cardinality({id \in DOMAIN monsters :
                                 monsters[id].zone = CombatZone /\ monsters[id].isAlive})
        IN  /\ spawnTicks' # spawnTicks =>
                   /\ monsters' = monsters
                   /\ (\A id \in DOMAIN players : ~players[id].isOnline) =>
                          spawn'.pc = "idle"
            /\ (spawn.pc = "count" /\ spawn' # spawn) =>
                   /\ monsters' = monsters
                   /\ spawn'.pc = (IF m < Min(20, 3 * n) THEN "create" ELSE "idle")
            /\ (spawn.pc = "create" /\ spawn' # spawn) =>
                   /\ spawn'.pc = "idle"
                   /\ Cardinality(DOMAIN monsters' \ DOMAIN monsters) = 1
                   /\ \A id \in DOMAIN monsters : monsters'[id] = monsters[id]
                   /\ \A id \in DOMAIN monsters' \ DOMAIN monsters :
                          LET row == monsters'[id]
                          IN  /\ row.level \in 10..99
                              /\ row.isAlive /\ row.zone = CombatZone
                              /\ row.difficultyMultiplier.num * 2 * n
                                     = row.difficultyMultiplier.den * (2 * n + sum)
                              /\ row.health = (row.level * 100 * (2 * n + sum)) \div (2 * n)
                              /\ row.maxHealth = row.health ]_vars

----------------------------------------------------------------------------
\* C24: a regenerator tick reads the online players and, for each of them in
\* turn, stores health = min(maxHealth, health + floor(maxHealth * 0.01)) and
\* aura = min(maxAura, aura + floor(maxAura * 0.02)), computed from the row it
\* read; it calls updatePlayer for a player only if one of the two values
\* differs from the row it read; it writes no other field and no row of a
\* player that was offline when the tick read the table
RegenTick ==
    [][ /\ regenTicks' # regenTicks =>
               /\ players' = players
               /\ regen'.wrote = {}
               /\ regen'.todo = {players[id] : id \in {i \in DOMAIN players :
                                                          players[i].isOnline}}
        /\ (regen.pc = "loop" /\ regen' # regen) =>
               \E p \in regen.todo :
                  LET health == IF p.health + (p.maxHealth \div 100) <= p.maxHealth
                                THEN p.health + (p.maxHealth \div 100) ELSE p.maxHealth
                      aura == IF p.aura + ((2 * p.maxAura) \div 100) <= p.maxAura
                              THEN p.aura + ((2 * p.maxAura) \div 100) ELSE p.maxAura
                  IN  /\ p.isOnline
                      /\ regen'.todo = regen.todo \ {p}
                      /\ IF health = p.health /\ aura = p.aura
                         THEN players' = players /\ regen'.wrote = regen.wrote
                         ELSE /\ players' = [players EXCEPT ![p.id].health = health,
                                                            ![p.id].aura = aura]
                              /\ regen'.wrote = regen.wrote \cup {p.id} ]_vars

\* witness of C24: the tick is over; it wrote p1, whose health and aura rose by
\* one and two hundredths of their maxima, and not the offline p2, whose aura
\* is still below its maximum
RegeneratedOnlineOnly ==
    /\ regenTicks = 1 /\ regen.pc = "idle" /\ regen.wrote = {"p1"}
    /\ players["p1"].maxHealth = 4000 /\ players["p1"].health = 3540
    /\ players["p1"].maxAura = 2000 /\ players["p1"].aura = 540
    /\ ~players["p2"].isOnline
    /\ players["p2"].aura = 60 /\ players["p2"].maxAura = 500

----------------------------------------------------------------------------
(* Collecting world loot *)

RECURSIVE SumQuantities(_)
SumQuantities(rows) ==
    IF rows = {} THEN 0
    ELSE LET x == CHOOSE y \in rows : TRUE
         IN  x.quantity + SumQuantities(rows \ {x})

\* what a player holds of an item: the quantities of the rows of the pair
Held(inv, playerId, itemId) ==
    SumQuantities(inventoryRows(inv, playerId, itemId))

\* the rows of every other (player, item) pair are the same in both tables
SameElsewhere(inv, inv2, playerId, itemId) ==
    inv \ inventoryRows(inv, playerId, itemId) = inv2 \ inventoryRows(inv2, playerId, itemId)

\* C26: a collect call for a loot id that is not stored, or whose expiry has
\* passed, fails (status 400) and leaves the inventory and the world loot as
\* they were, and so does every failing call; a call for an unexpired loot by a
\* stored player goes through: the stack it found (or a new row) grows the
\* collector's holding of the loot's item by exactly the loot's quantity, no
\* other pair is touched, the loot is deleted and the call answers 200.
CollectAsClaimed ==
    [][ \A k \in CollectReqs :
          LET f == collect[k]
              g == collect'[k]
              stored == {w \in worldLoot : w.id = g.lootId}
          IN  /\ (f.pc = "idle" /\ g.pc # "idle") =>
                    /\ (stored = {} \/ \A w \in stored : w.expiresAt < now) =>
                           g.pc = "done" /\ g.status = 400
                    /\ (\E w \in stored : w.expiresAt > now) =>
                           g.pc = "addRead" /\ g.loot \in stored
                    /\ inventory' = inventory
                    /\ worldLoot' = worldLoot
              /\ (f.pc # "done" /\ g.pc = "done" /\ g.status # 200) =>
                    /\ g.status = 400
                    /\ inventory' = inventory
                    /\ worldLoot' = worldLoot
              /\ (f.pc = "addRead" /\ g.pc # "addRead") =>
                    /\ g.pc = "addWrite"
                    /\ inventory' = inventory
                    /\ worldLoot' = worldLoot
              /\ (f.pc = "addWrite" /\ g.pc # "addWrite" /\ f.playerId \in PlayerIds) =>
                    /\ g.pc = "delete"
                    /\ (f.existing = Null \/ f.existing \in inventory) =>
                           Held(inventory', f.playerId, f.loot.itemId)
                               = Held(inventory, f.playerId, f.loot.itemId) + f.loot.quantity
                    /\ SameElsewhere(inventory, inventory', f.playerId, f.loot.itemId)
                    /\ worldLoot' = worldLoot
              /\ (f.pc = "delete" /\ g.pc # "delete") =>
                    /\ g.pc = "done" /\ g.status = 200
                    /\ \A w \in worldLoot' : w.id # f.lootId
                    /\ \A w \in worldLoot : w.id # f.lootId => w \in worldLoot'
                    /\ worldLoot' \subseteq worldLoot
                    /\ inventory' = inventory ]_vars

\* p1, holding a bone and two pieces of meat, has collected the three bones of
\* loot 103 and was refused the expired loot 101
CollectedAndRefused ==
    /\ collect["k1"].pc = "done" /\ collect["k1"].status = 200
    /\ collect["k1"].playerId = "p1" /\ collect["k1"].lootId = 103
    /\ collect["k2"].pc = "done" /\ collect["k2"].status = 400
    /\ collect["k2"].playerId = "p1" /\ collect["k2"].lootId = 101
    /\ inventory = {[id |-> 201, playerId |-> "p1", itemId |-> "bone", quantity |-> 4],
                    [id |-> 202, playerId |-> "p1", itemId |-> "meat", quantity |-> 2]}
    /\ sweeps = 0
    /\ {w.id : w \in worldLoot} = {101, 102, 104, 105, 106}

----------------------------------------------------------------------------
(* Expired loot *)

\* C27: a tick of the loot janitor deletes every world loot whose expiry has
\* passed and none whose expiry is still ahead, and creates or changes none;
\* the loot query never returns a loot whose expiry has passed, whether or
\* not the janitor has deleted it, and returns only stored loot of the zone.
ExpiredLootSwept ==
    [][ /\ sweeps' # sweeps =>
              /\ worldLoot' \subseteq worldLoot
              /\ \A w \in worldLoot : w.expiresAt < now => w \notin worldLoot'
              /\ \A w \in worldLoot : w.expiresAt > now => w \in worldLoot'
        /\ lootQuery' # lootQuery =>
              /\ lootQuery' \subseteq worldLoot
              /\ \A w \in lootQuery' : ~(w.expiresAt < now') /\ w.zone = CombatZone
              /\ \A w \in worldLoot :
                    (w.zone = CombatZone /\ w.expiresAt > now) => w \in lootQuery' ]_vars

\* the janitor ran at the start and deleted the loots 101 and 102; two seconds
\* later the query returns the loot 104 alone, while the loot 106, expired and
\* not yet swept, is still stored
SweptAndHidden ==
    /\ sweeps = 1
    /\ ticks = 1
    /\ {w.id : w \in worldLoot} = {103, 104, 105, 106}
    /\ {w.id : w \in lootQuery} = {104}
    /\ \E w \in worldLoot : w.id = 106 /\ w.expiresAt < now
    /\ \A k \in CollectReqs : collect[k].pc = "idle"

----------------------------------------------------------------------------
(* Inventory stacks *)

\* C30: every inventory row holds a quantity greater than 0.  A removal
\* that finds no row of the pair, or a row holding less than the requested
\* quantity, fails and changes nothing; otherwise the row it found is deleted
\* when it holds exactly the requested quantity and is set to the difference
\* when it holds more, and no other row is touched.
StacksPositive ==
    [][ /\ \A x \in inventory \cup inventory' : x.quantity > 0
        /\ \A u \in ItemReqs :
          LET f == itemUse[u]
              g == itemUse'[u]
              rows == inventoryRows(inventory, f.playerId, f.itemId)
              e == f.existing
          IN  /\ (f.pc = "removeRead" /\ g.pc # "removeRead") =>
                    /\ inventory' = inventory
                    /\ rows = {} => g.pc = "done"
                    /\ g.pc = "done" =>
                          /\ g.status = 400
                          /\ rows = {} \/ \E x \in rows : x.quantity < f.quantity
                    /\ g.pc # "done" =>
                          /\ g.pc = "removeWrite"
                          /\ g.existing \in rows
                          /\ ~(g.existing.quantity < f.quantity)
              /\ (f.pc = "removeWrite" /\ g.pc # "removeWrite") =>
                    /\ {x \in inventory' : x.id # e.id} = {x \in inventory : x.id # e.id}
                    /\ e \in inventory =>
                          IF e.quantity = f.quantity
                          THEN inventory' = inventory \ {e}
                          ELSE inventory' = (inventory \ {e}) \cup
                                   {[e EXCEPT !.quantity = e.quantity - f.quantity]} ]_vars

\* p1 held a bone and two pieces of meat; the use of two pieces has deleted
\* the stack of meat, the use of one more piece was refused
StackUsedUp ==
    /\ itemUse["u1"].pc = "done" /\ itemUse["u1"].status = 200
    /\ itemUse["u1"].itemId = "meat" /\ itemUse["u1"].quantity = 2
    /\ itemUse["u1"].existing.quantity = 2
    /\ itemUse["u2"].pc = "done" /\ itemUse["u2"].status = 400
    /\ itemUse["u2"].itemId = "meat" /\ itemUse["u2"].quantity = 1
    /\ itemUse["u2"].existing = Null
    /\ inventory = {[id |-> 201, playerId |-> "p1", itemId |-> "bone", quantity |-> 1]}
    /\ collect["k1"].pc = "idle"

----------------------------------------------------------------------------
(* Monster health *)

\* C29: every monster, spawned or not, has 0 <= health <= maxHealth in
\* every state; the health an ability use writes is the health it read less
\* the damage, and exactly 0 when the damage is at least that health.
MonsterHealthBounded ==
    [][ /\ \A id \in DOMAIN monsters :
              0 <= monsters[id].health /\ monsters[id].health <= monsters[id].maxHealth
        /\ \A id \in DOMAIN monsters' :
              0 <= monsters'[id].health /\ monsters'[id].health <= monsters'[id].maxHealth
        /\ \A r \in Reqs :
              (req[r].pc = "updateMonster" /\ req'[r].pc # "updateMonster") =>
                  LET f == req[r]
                  IN  monsters'[f.monster.id].health =
                          IF f.totalDamage >= f.monster.health
                          THEN 0
                          ELSE f.monster.health - f.totalDamage ]_vars

\* a monster was spawned with a multiplier above 1 and the wounded m1 was
\* killed by a hit stronger than its remaining health
OverkillAndSpawn ==
    /\ req["r1"].pc = "done"
    /\ req["r1"].monster # Null
    /\ req["r1"].monster.id = "m1"
    /\ req["r1"].totalDamage > req["r1"].monster.health
    /\ monsters["m1"].health = 0
    /\ "s1" \in DOMAIN monsters
    /\ monsters["s1"].health = monsters["s1"].maxHealth
    /\ monsters["s1"].maxHealth > monsters["s1"].level * 100

----------------------------------------------------------------------------
(* Experience *)

\* C28: in every step the experience of every player stays or grows, unless
\* the step is the write of a rebirth and sets it to 0.
ExperienceMonotone ==
    [][ \A id \in DOMAIN players :
           \/ players'[id].experience >= players[id].experience
           \/ /\ players'[id].experience = 0
              /\ \E b \in RebirthReqs :
                    /\ rebirth[b].pc = "performWrite"
                    /\ rebirth'[b].pc # "performWrite"
                    /\ rebirth[b].playerId = id ]_vars

----------------------------------------------------------------------------
(* The periodic processes under storage errors *)

\* the ticks a periodic process has started
TicksOf(t) ==
    CASE t = "spawner" -> spawnTicks
      [] t = "regenerator" -> regenTicks
      [] OTHER -> sweeps

\* the ticks of a process that are to run without an error
TickBound(t) ==
    CASE t = "spawner" -> MaxSpawnTicks
      [] t = "regenerator" -> MaxRegenTicks
      [] OTHER -> MaxSweeps

\* the callback of the process is not in the middle of a tick
Resting(t) ==
    CASE t = "spawner" -> spawn.pc = "idle"
      [] t = "regenerator" -> regen.pc = "idle"
      [] OTHER -> TRUE

\* C25: once a tick of a periodic process has been ended by a storage
\* error, that process goes on to run a later tick to its end, every process
\* runs all its ticks (one more for each tick an error ended), and the
\* collect call in flight is answered.
TimersSurviveFaults ==
    \A t \in Timers :
        (faults[t] # {}) ~>
            /\ \A n \in faults[t] : TicksOf(t) > n
            /\ \A o \in Timers :
                  /\ Resting(o)
                  /\ TicksOf(o) = TickBound(o) + Cardinality(faults[o])
            /\ collect["k1"].pc = "done"

\* the first tick of the regenerator was ended by an error and its second
\* tick ran; the spawner and the janitor ran their ticks and a collect call
\* was served
AllTimersRecovered ==
    /\ faults = [t \in Timers |-> IF t = "regenerator" THEN {1} ELSE {}]
    /\ spawnTicks = 1 /\ regenTicks = 2 /\ sweeps = 1
    /\ spawn.pc = "idle" /\ regen.pc = "idle"
    /\ "s1" \in DOMAIN monsters
    /\ regen.wrote = {"p1"}
    /\ \A w \in worldLoot : w.expiresAt > now
    /\ collect["k1"].pc = "done" /\ collect["k1"].status = 200

----------------------------------------------------------------------------
(* Loot drops *)

Abs(x) == IF x < 0 THEN -x ELSE x

\* C31: the loot drop of a kill creates no world loot when the catalog lacks
\* the bone or the meat item, and the ability use still succeeds; otherwise
\* each world loot it creates is of the bone item with a quantity in 1..3 or
\* of the meat item with a quantity in 1..2, lies in the zone of the dead
\* monster, at its height and at most 5 units from it along X and along Z,
\* and names the killer as dropper.  No stored loot is changed.
DropsAsClaimed ==
    [][ \A r \in Reqs :
           (req[r].pc = "dropLoot" /\ req'[r].pc # "dropLoot") =>
               LET f == req[r]
                   created == worldLoot' \ worldLoot
                   bones == {i \in lootItems : i.name = "Monster Bone"}
                   meats == {i \in lootItems : i.name = "Monster Meat"}
               IN  /\ worldLoot \subseteq worldLoot'
                   /\ req'[r].pc = "done"
                   /\ req'[r].result.success
                   /\ (bones = {} \/ meats = {}) => created = {}
                   /\ \A w \in created :
                         /\ \/ /\ \E i \in bones : w.itemId = i.id
                               /\ w.quantity \in 1..3
                            \/ /\ \E i \in meats : w.itemId = i.id
                               /\ w.quantity \in 1..2
                         /\ w.zone = f.monster.zone
                         /\ w.positionY = f.monster.positionY
                         /\ Abs(w.positionX - f.monster.positionX) <= 5
                         /\ Abs(w.positionZ - f.monster.positionZ) <= 5
                         /\ w.droppedBy = f.playerId ]_vars

\* p1 has killed m1, which stood at (30, 0, 40): three bones and two pieces of
\* meat lie at (25, 0, 44)
BonesAndMeatDropped ==
    /\ req["r1"].pc = "done"
    /\ req["r1"].result.success
    /\ ~monsters["m1"].isAlive
    /\ {<<w.itemId, w.quantity, w.positionX, w.positionY, w.positionZ, w.zone, w.droppedBy>> :
           w \in worldLoot}
         = {<<"bone", 3, 25, 0, 44, CombatZone, "p1">>,
            <<"meat", 2, 25, 0, 44, CombatZone, "p1">>}

\* the catalog lacks the meat: p1 has killed m1 and nothing was dropped
NothingDropped ==
    /\ req["r1"].pc = "done"
    /\ req["r1"].result.success
    /\ ~monsters["m1"].isAlive
    /\ \A i \in lootItems : i.name # "Monster Meat"
    /\ worldLoot = {}

----------------------------------------------------------------------------
(* Independence of the players *)

\* C32: no step of an ability use of player A (its start, a failed check,
\* a write, a rejected storage call) changes the record or the cooldown
\* entries of any other player.
OtherPlayersUntouched ==
    [][ \A r \in Reqs :
           req'[r] # req[r] =>
               \A b \in DOMAIN players \ {req'[r].playerId} :
                   /\ players'[b] = players[b]
                   /\ playerCooldowns'[b] = playerCooldowns[b] ]_vars

\* p1's call was ended by a storage error after its aura had been written;
\* p2's call went through meanwhile and p2 holds what its own call left
FaultBesideSuccess ==
    /\ req["r1"].pc = "done" /\ req["r1"].playerId = "p1"
    /\ req["r1"].result.message.kind = "StorageError"
    /\ players["p1"].aura < 500
    /\ req["r2"].pc = "done" /\ req["r2"].playerId = "p2"
    /\ req["r2"].result.success
    /\ req["r2"].issuedAfter = {}
    /\ players["p2"] = [P2Row EXCEPT !.aura = 10]
    /\ playerCooldowns["p2"][stone_bullet] > now
    /\ playerCooldowns["p2"][ground_dig_up] = 0

----------------------------------------------------------------------------
(* The damage of a result *)

\* C33: a successful result carries a damage value only when the call
\* found an alive monster in range and wrote its health; a successful call
\* without targetId, or whose target resolved to no such monster, reports no
\* damage.
DamageOnlyWhenApplied ==
    \A r \in Reqs :
        (req[r].pc = "done" /\ req[r].result.success /\ req[r].result.hasDamage) =>
            /\ req[r].targetId # NoTarget
            /\ req[r].monster # Null

----------------------------------------------------------------------------
(* Cooldown lookups *)

\* the players and the ability names the lookups are asked about: stored and
\* unknown players, names with and without an entry, a name no map holds
LookupPlayers == PlayerIds \cup {Ghost}
LookupNames == AbilityNameArgs \cup {wind_manipulation}

\* the expiry stored for the pair, 0 when there is none
StoredExpiry(cds, p, a) ==
    IF p \in PlayerIds /\ a \in AbilityNameArgs THEN cds[p][a] ELSE 0

\* C34: for every player and ability name, known or not, the remaining
\* cooldown is max(0, expiry - now), hence 0 without an entry and 0 once the
\* expiry has passed; the ability is reported on cooldown exactly when the
\* remaining cooldown is above 0; and when the clock advances while the entry
\* stays and the remaining cooldown is above 0, the remaining cooldown gets
\* strictly smaller.
CooldownLookups ==
    [][ \A p \in LookupPlayers : \A a \in LookupNames :
           LET expiry == StoredExpiry(playerCooldowns, p, a)
               expiry2 == StoredExpiry(playerCooldowns', p, a)
               remaining == getRemainingCooldown(playerCooldowns, p, a, now)
               remaining2 == getRemainingCooldown(playerCooldowns', p, a, now')
           IN  /\ remaining = IF expiry = 0 THEN 0 ELSE Max(0, expiry - now)
               /\ remaining2 = IF expiry2 = 0 THEN 0 ELSE Max(0, expiry2 - now')
               /\ isOnCooldown(playerCooldowns, p, a, now) <=> remaining > 0
               /\ isOnCooldown(playerCooldowns', p, a, now') <=> remaining2 > 0
               /\ (now' > now /\ expiry2 = expiry /\ remaining > 0) =>
                      remaining2 < remaining ]_vars

\* p1 used Stone Bullet at 1000 and Date.now() is 4000: the cooldown ran out
\* a second ago; Ground Dig-Up was never used; nothing is known of the
\* unknown player
CooldownRanOut ==
    /\ now = 4000
    /\ playerCooldowns["p1"][stone_bullet] = 3000
    /\ getRemainingCooldown(playerCooldowns, "p1", stone_bullet, now) = 0
    /\ ~isOnCooldown(playerCooldowns, "p1", stone_bullet, now)
    /\ playerCooldowns["p1"][ground_dig_up] = 0
    /\ getRemainingCooldown(playerCooldowns, "p1", ground_dig_up, now) = 0
    /\ getRemainingCooldown(playerCooldowns, Ghost, stone_bullet, now) = 0
    /\ ~isOnCooldown(playerCooldowns, Ghost, wind_manipulation, now)

\* C35: the cooldown is shared by every spelling that resolves to the ability:
\* when a call's cooldown check runs while a finished successful call of the
\* same player, requested under any name with the same lookup key, armed the
\* cooldown less than the ability's cooldown ago, and the call's level and aura
\* checks pass, the call is rejected as on cooldown
SpellingsShareCooldown ==
    [][ \A r, s \in Reqs :
          ( /\ Steps(r) /\ req[r].pc = "validate"
            /\ Resolved(req[r]) /\ LevelMet(req[r]) /\ AuraMet(req[r])
            /\ req[s].pc = "done" /\ req[s].result.success
            /\ req[s].playerId = req[r].playerId
            /\ AbilityKey(req[s].abilityName) = AbilityKey(req[r].abilityName)
            /\ now < req[s].armedAt + GetAbility(req[s].abilityName).cooldown )
          => /\ req'[r].pc = "done"
             /\ ~req'[r].result.success
             /\ req'[r].result.message.kind = "Ability on cooldown" ]_vars

\* a use requested as 'Stone Bullet', issued after the same player's use
\* requested as 'stone_bullet' returned success, succeeds inside its cooldown
DisplayNameSkipsCooldown ==
    /\ req["r2"].pc = "done" /\ req["r2"].result.success
    /\ req["r2"].playerId = "p1" /\ req["r2"].abilityName = stone_bullet
    /\ req["r1"].pc = "done" /\ req["r1"].result.success
    /\ req["r1"].playerId = "p1" /\ req["r1"].abilityName = StoneBulletDisplay
    /\ "r2" \in req["r1"].issuedAfter
    /\ req["r1"].armedAt < req["r2"].armedAt + GetAbility(stone_bullet).cooldown

\* C36: a monster's death is rewarded at most once: no ability use writes the
\* health of a monster that is already marked dead, experience is awarded for
\* a monster by at most one use, and dropLoot runs for a monster in at most one
\* use
DeathRewardedOnce ==
    [][ \A r \in Reqs :
          Steps(r) =>
            /\ req[r].pc = "updateMonster" => monsters[req[r].monster.id].isAlive
            /\ \A s \in Reqs \ {r} :
                 LET sameMonster == /\ req[s].monster # Null
                                    /\ req[s].monster.id = req[r].monster.id
                                    /\ req[s].newHealth <= 0
                 IN  /\ req[r].pc = "awardExperience" =>
                          ~(req[s].pc \in {"dropLoot", "done"} /\ sameMonster)
                     /\ req[r].pc = "dropLoot" =>
                          ~(req[s].pc = "done" /\ sameMonster) ]_vars

\* both overlapping uses went through the kill branch for monster m1
KilledTwice ==
    \A r \in Reqs :
        /\ req[r].pc = "done" /\ req[r].result.success
        /\ req[r].monster # Null /\ req[r].monster.id = "m1"
        /\ req[r].newHealth <= 0

\* C37: a loot instance is collected at most once: of the collect requests on
\* one loot id at most one has added the loot's quantity to an inventory, and
\* at most one is answered with success
LootCollectedOnce ==
    \A k, l \in CollectReqs :
        LET added(f) == f.pc = "delete" \/ (f.pc = "done" /\ f.status = 200)
        IN  (k # l /\ added(collect[k]) /\ added(collect[l]))
               => collect[k].lootId # collect[l].lootId

\* both requests on loot 103 were answered with success
CollectedTwice ==
    \A k \in CollectReqs :
        collect[k].pc = "done" /\ collect[k].status = 200 /\ collect[k].lootId = 103

\* C40: for each (player, item) pair the inventory holds at most one row
OneRowPerPair ==
    \A x, y \in inventory :
        (x.playerId = y.playerId /\ x.itemId = y.itemId) => x = y

\* p1 collected two different loot instances of bones at once and holds two
\* rows of bones
TwoRowsOfBones ==
    /\ \A k \in CollectReqs : collect[k].pc = "done" /\ collect[k].status = 200
    /\ collect["k1"].lootId # collect["k2"].lootId
    /\ Cardinality({x \in inventory : x.playerId = "p1" /\ x.itemId = "bone"}) = 2

\* C38: the spawner never takes the number of live monsters of the zone above
\* 20, overlapping ticks included
LiveMonsters == Cardinality(getMonstersInZone(monsters, CombatZone))

MonstersCapped ==
    [][LiveMonsters <= 20 => LiveMonsters' <= 20]_vars

\* C39: with no connection handler in flight, every player whose identity an
\* open connection carries is marked online
OpenMeansOnline ==
    \A c \in ConnIds :
        (conns[c].state = "open" /\ conns[c].playerId \in PlayerIds)
            => players[conns[c].playerId].isOnline

\* p2 is connected twice, one of the connections closed, and p2 is offline
\* while the other connection is open
OfflineWhileConnected ==
    /\ conns["c3"].state = "closed" /\ conns["c3"].playerId = "p2"
    /\ \E c \in ConnIds : conns[c].state = "open" /\ conns[c].playerId = "p2"
    /\ ~players["p2"].isOnline

====
